---- MODULE Spec2Model ----
(***************************************************************************)
(* Call adapters of the vendor-library wrappers:                           *)
(*   PicoquantSepia2Lib (Picoquant/Sepia_Library.py, Sepia_Library_utils)  *)
(*   Atmcd64dLib        (Andor/atmcd64d/atmcd64d_library.py, _utils)       *)
(*                                                                         *)
(* One wrapper object is driven by a sequential caller.  Every action is   *)
(* one call of a wrapper method (the retry loop of                          *)
(* fwr_create_support_request_text is unrolled into one action per         *)
(* iteration).  The native library is a stub whose return codes and        *)
(* output bytes are chosen nondeterministically; every native call is      *)
(* appended to nativeLog.                                                  *)
(*                                                                         *)
(* Further specifications follow the life cycle of one wrapper object      *)
(* (AttoDryLib, Atmcd64dLib, WlmDataLib) from construction to deletion,    *)
(* and the bit-list conversions of the SOM / SOMD enable masks.            *)
(***************************************************************************)
EXTENDS Integers, Sequences, FiniteSets, TLC

VARIABLES
    op,          \* name of the wrapper method called last ("" before the first call)
    args,        \* the arguments of that call
    result,      \* its outcome: returned value or raised exception
    nativeLog,   \* native calls issued by that call, in order
    pc,          \* "idle", "loop" (inside the retry loop) or "done" (call finished)
    buf_size,    \* local of fwr_create_support_request_text
    error_code,  \* local of fwr_create_support_request_text
    c_buffer,    \* local of fwr_create_support_request_text
    allocs,      \* buffers allocated by the current call (create_string_buffer)
    stub,        \* how the native stub answers the retry loop of the current call
    self,        \* attributes of the wrapper object whose life cycle is followed
    native       \* what the operating system and the native library hold for it

vars ==
    <<op, args, result, nativeLog, pc, buf_size, error_code, c_buffer, allocs, stub,
      self, native>>

(***************************************************************************)
(* Bounds of the model                                                     *)
(***************************************************************************)
\* largest number of doublings of the support-text buffer the stub can force
MaxRetries == 3
\* longest boolean / integer list handed to the SOM/SOMD setters is 8 + ListSlack
ListSlack == 1

(***************************************************************************)
(* Python values                                                           *)
(***************************************************************************)
\* Python None and a present value (optional attributes of the exceptions)
None == <<>>
Some(x) == <<x>>

\* a Python exception that is not a library error (ValueError, UnicodeDecodeError ...)
PyExc(t) ==
    [type |-> t, error_code |-> None, error_message |-> None,
     function_name |-> None, cause |-> ""]

\* PicoquantSepia2LibError(error_code, error_message, function_name)
PicoquantSepia2LibError(c, m, f) ==
    [type |-> "PicoquantSepia2LibError", error_code |-> c, error_message |-> m,
     function_name |-> f, cause |-> ""]

NoExc == PyExc("")

\* the element of a set of one element: Once({ f(x) : x \in {e} }) is f(e)
\* with e evaluated once
Once(S) == CHOOSE x \in S : TRUE

\* outcome of a (partial) execution: what it returned or raised, the native
\* calls it issued and the wrapper functions it entered
Return(v, calls, trace) ==
    [kind |-> "return", value |-> v, exc |-> NoExc, calls |-> calls, trace |-> trace]
Raise(e, calls, trace) ==
    [kind |-> "raise", value |-> None, exc |-> e, calls |-> calls, trace |-> trace]

\* one native call: function, tuple of the integer arguments, declared buffer
\* size, id and capacity of the output buffer passed, returned status, bytes
\* written to the buffer
NativeCall(fn, a, size, bufid, cap, ret, out) ==
    [fn |-> fn, arg |-> a, size |-> size, buf |-> bufid, cap |-> cap,
     ret |-> ret, out |-> out]

(***************************************************************************)
(* Strings                                                                 *)
(***************************************************************************)
\* index of the first NUL byte of b, or Len(b) + 1
RECURSIVE FirstNul(_, _)
FirstNul(b, i) ==
    IF i > Len(b) THEN i
    ELSE IF b[i] = 0 THEN i
    ELSE FirstNul(b, i + 1)

\* ctypes: c_buffer.value, the bytes before the first NUL
CValue(b) == SubSeq(b, 1, FirstNul(b, 1) - 1)

\* bytes.decode(str_encoding) for the encodings the wrappers default to
\* (utf-8, ascii): bytes below 128 decode to themselves, a lone byte
\* >= 128 raises UnicodeDecodeError
StrDecodable(b) == \A i \in 1..Len(b) : b[i] < 128
StrDecode(b) == b

\* bytes a native function may leave in an output buffer
BufferTexts == { <<79, 75>>, <<255>>, <<69, 0, 255>> }

(***************************************************************************)
(* Sepia_Library_utils.handle_errors                                       *)
(***************************************************************************)
\* variant: the decorator is missing, exceptions pass unconverted
handle_errors_missing(o) == o

handle_errors(o) ==
    Once({ IF r.kind = "return" THEN r
           ELSE IF r.exc.type = "PicoquantSepia2LibError" THEN r
           ELSE Raise([PicoquantSepia2LibError(None, None, None)
                          EXCEPT !.cause = r.exc.type],
                      r.calls, r.trace) : r \in {o} })

(***************************************************************************)
(* PicoquantSepia2Lib.lib_decode_error / check_error                       *)
(***************************************************************************)
\* status codes the native Sepia library returns in the model
SepiaCodes == {0, -1001, -9004}

\* what the native decoder answers to the (at most two) calls of one
\* lib_decode_error: status and bytes written, per call
DecoderStubs ==
    [r1 : SepiaCodes, t1 : BufferTexts, r2 : SepiaCodes, t2 : BufferTexts]

DecodeErrorName == "SEPIA2_LIB_DecodeError"

\* variant: a successful second decode is returned as if it were the message
lib_decode_error_returns_second(code, d) ==
    LET call1 == NativeCall(DecodeErrorName, <<code>>, 0, 1, 64, d.r1, d.t1)
        call2 == NativeCall(DecodeErrorName, <<d.r1>>, 0, 1, 64, d.r2, d.t2)
        tr    == <<"lib_decode_error">>
    IN  IF d.r1 = 0
        THEN Return(Some(StrDecode(CValue(d.t1))), <<call1>>, tr)
        ELSE IF d.r2 = 0
        THEN Return(Some(StrDecode(CValue(d.t2))), <<call1, call2>>, tr)
        ELSE Raise(PicoquantSepia2LibError(Some(d.r1), None, Some(DecodeErrorName)),
                   <<call1, call2>>, tr)

\* variant: the internal error code goes through check_error, which decodes
\* again (one level of the recursion the source comment warns about)
lib_decode_error_via_check_error(code, d) ==
    LET call1 == NativeCall(DecodeErrorName, <<code>>, 0, 1, 64, d.r1, d.t1)
        call2 == NativeCall(DecodeErrorName, <<d.r1>>, 0, 1, 64, d.r2, d.t2)
        call3 == NativeCall(DecodeErrorName, <<d.r2>>, 0, 1, 64, d.r2, d.t2)
    IN  IF d.r1 = 0
        THEN Return(Some(StrDecode(CValue(d.t1))), <<call1>>, <<"lib_decode_error">>)
        ELSE IF d.r2 = 0
        THEN Raise(PicoquantSepia2LibError(Some(d.r1), Some(StrDecode(CValue(d.t2))),
                                           Some(DecodeErrorName)),
                   <<call1, call2>>,
                   <<"lib_decode_error", "check_error", "lib_decode_error">>)
        ELSE Raise(PicoquantSepia2LibError(Some(d.r1), None, Some(DecodeErrorName)),
                   <<call1, call2, call3>>,
                   <<"lib_decode_error", "check_error", "lib_decode_error">>)

\* body of lib_decode_error (without the decorator)
lib_decode_error_body(code, d) ==
    LET call1 == NativeCall(DecodeErrorName, <<code>>, 0, 1, 64, d.r1, d.t1)
        call2 == NativeCall(DecodeErrorName, <<d.r1>>, 0, 1, 64, d.r2, d.t2)
        tr    == <<"lib_decode_error">>
    IN  IF d.r1 = 0
        THEN IF StrDecodable(CValue(d.t1))
             THEN Return(Some(StrDecode(CValue(d.t1))), <<call1>>, tr)
             ELSE Raise(PyExc("UnicodeDecodeError"), <<call1>>, tr)
        ELSE IF d.r2 = 0
        THEN IF StrDecodable(CValue(d.t2))
             THEN Raise(PicoquantSepia2LibError(Some(d.r1),
                                                Some(StrDecode(CValue(d.t2))),
                                                Some(DecodeErrorName)),
                        <<call1, call2>>, tr)
             ELSE Raise(PyExc("UnicodeDecodeError"), <<call1, call2>>, tr)
        ELSE Raise(PicoquantSepia2LibError(Some(d.r1), None, Some(DecodeErrorName)),
                   <<call1, call2>>, tr)

lib_decode_error(code, d) == handle_errors(lib_decode_error_body(code, d))

\* check_error(exit_code, function_name); d is the decoder stub in case the
\* decoder is called
check_error(exit_code, function_name, d) ==
    IF exit_code = 0
    THEN Return(None, <<>>, <<"check_error">>)
    ELSE LET dec == lib_decode_error(exit_code, d)
             tr  == <<"check_error">> \o dec.trace
         IN  IF dec.kind = "return"
             THEN Raise(PicoquantSepia2LibError(Some(exit_code), dec.value, function_name),
                        dec.calls, tr)
             ELSE IF dec.exc.type = "PicoquantSepia2LibError"
             THEN Raise(PicoquantSepia2LibError(Some(exit_code), None, function_name),
                        dec.calls, tr)
             ELSE Raise(dec.exc, dec.calls, tr)

\* statements after a native call: the outcome of check_error if it raised,
\* else the outcome of the rest of the method
Then(chk, rest) ==
    Once({ IF c.kind = "raise" THEN c
           ELSE [rest EXCEPT !.calls = c.calls \o @,
                             !.trace = c.trace \o @] : c \in {chk} })

\* prepend the native calls made before check_error was reached
After(calls, o) == [o EXCEPT !.calls = calls \o @]

(***************************************************************************)
(* PicoquantSepia2Lib.lib_get_version                                      *)
(***************************************************************************)
\* the str(bytes) conversion that ends a getter: a decode failure raises
DecodeBuffer(b) ==
    IF StrDecodable(CValue(b))
    THEN Return(Some(StrDecode(CValue(b))), <<>>, <<>>)
    ELSE Raise(PyExc("UnicodeDecodeError"), <<>>, <<>>)

GetVersionName == "SEPIA2_LIB_GetVersion"

\* ret, text: status and bytes of the native SEPIA2_LIB_GetVersion
lib_get_version(ret, text, d) ==
    LET call == NativeCall(GetVersionName, <<>>, 0, 1, 12, ret, text)
    IN  handle_errors(
            After(<<call>>,
                  Then(check_error(ret, Some(GetVersionName), d),
                       DecodeBuffer(text))))

(***************************************************************************)
(* PicoquantSepia2Lib.som_set_out_n_sync_enable and friends                *)
(***************************************************************************)
\* int("".join("1" if b else "0" for b in bits), 2): first element is the
\* most significant bit
RECURSIVE BitsToInt(_)
BitsToInt(bits) ==
    IF bits = <<>> THEN 0
    ELSE 2 * BitsToInt(SubSeq(bits, 1, Len(bits) - 1))
         + (IF bits[Len(bits)] THEN 1 ELSE 0)

\* ctypes.c_ubyte(v).value: no overflow check, the low 8 bits are kept
CUByte(v) == v % 256

BoolToInt(b) == IF b THEN 1 ELSE 0

\* number of output channels of a SOM / SOMD module
Channels == 8

som_set_out_n_sync_enable(device_id, slot_id, out_enable_list, sync_enable_list, sync_inverse, ret, d) ==
    LET name == "SEPIA2_SOM_SetOutNSyncEnable"
        out_enable  == BitsToInt(out_enable_list)
        sync_enable == BitsToInt(sync_enable_list)
        call == NativeCall(name,
                           <<device_id, slot_id, CUByte(out_enable),
                             CUByte(sync_enable), CUByte(BoolToInt(sync_inverse))>>,
                           0, 0, 0, ret, <<>>)
    IN  handle_errors(
            IF Len(out_enable_list) # Channels
            THEN Raise(PyExc("ValueError"), <<>>, <<>>)
            ELSE IF Len(sync_enable_list) # Channels
            THEN Raise(PyExc("ValueError"), <<>>, <<>>)
            ELSE After(<<call>>, check_error(ret, Some(name), d)))

somd_set_out_n_sync_enable(device_id, slot_id, out_enable_list, sync_enable_list, sync_inverse, ret, d) ==
    LET name == "SEPIA2_SOMD_SetOutNSyncEnable"
        out_enable  == BitsToInt(out_enable_list)
        sync_enable == BitsToInt(sync_enable_list)
        call == NativeCall(name,
                           <<device_id, slot_id, CUByte(out_enable),
                             CUByte(sync_enable), CUByte(BoolToInt(sync_inverse))>>,
                           0, 0, 0, ret, <<>>)
    IN  handle_errors(
            IF Len(out_enable_list) # Channels
            THEN Raise(PyExc("ValueError"), <<>>, <<>>)
            ELSE IF Len(sync_enable_list) # Channels
            THEN Raise(PyExc("ValueError"), <<>>, <<>>)
            ELSE After(<<call>>, check_error(ret, Some(name), d)))

\* variant: the length of burst_lengths is not checked
som_set_burst_length_array_unchecked(device_id, slot_id, burst_lengths, ret, d) ==
    LET name == "SEPIA2_SOM_SetBurstLengthArray"
        call == NativeCall(name, <<device_id, slot_id>> \o burst_lengths,
                           0, 0, 0, ret, <<>>)
    IN  handle_errors(After(<<call>>, check_error(ret, Some(name), d)))

som_set_burst_length_array(device_id, slot_id, burst_lengths, ret, d) ==
    LET name == "SEPIA2_SOM_SetBurstLengthArray"
        call == NativeCall(name, <<device_id, slot_id>> \o burst_lengths,
                           0, 0, 0, ret, <<>>)
    IN  handle_errors(
            IF Len(burst_lengths) # Channels
            THEN Raise(PyExc("ValueError"), <<>>, <<>>)
            ELSE After(<<call>>, check_error(ret, Some(name), d)))

somd_set_burst_length_array(device_id, slot_id, burst_lengths, ret, d) ==
    LET name == "SEPIA2_SOMD_SetBurstLengthArray"
        call == NativeCall(name, <<device_id, slot_id>> \o burst_lengths,
                           0, 0, 0, ret, <<>>)
    IN  handle_errors(
            IF Len(burst_lengths) # Channels
            THEN Raise(PyExc("ValueError"), <<>>, <<>>)
            ELSE After(<<call>>, check_error(ret, Some(name), d)))

(***************************************************************************)
(* PicoquantSepia2Lib.fwr_get_working_mode                                 *)
(***************************************************************************)
\* the values of the members of PicoquantSepia2WorkingMode
PicoquantSepia2WorkingMode == {0, 1}

\* PicoquantSepia2WorkingMode(value): the member, or ValueError
ToPicoquantSepia2WorkingMode(value) ==
    IF value \in PicoquantSepia2WorkingMode
    THEN Return(Some([member |-> TRUE, value |-> value]), <<>>, <<>>)
    ELSE Raise(PyExc("ValueError"), <<>>, <<>>)

\* fwr_get_working_mode(device_id); ret is the native status, mode what the
\* native function writes to c_mode
fwr_get_working_mode(device_id, ret, mode, d) ==
    LET name == "SEPIA2_FWR_GetWorkingMode"
        call == NativeCall(name, <<device_id>>, 0, 0, 0, ret, <<mode>>)
    IN  handle_errors(
            After(<<call>>,
                  Then(check_error(ret, Some(name), d),
                       ToPicoquantSepia2WorkingMode(mode))))

(***************************************************************************)
(* PicoquantSepia2Lib.fwr_create_support_request_text                      *)
(***************************************************************************)
\* buf_size = 8192
InitialBufSize == 8192

\* SEPIA2_ERR_FW_MEMORY_ALLOCATION_ERROR
MemoryAllocationError == -1001

\* while error_code == -1001
RetryNeeded(code) == code = MemoryAllocationError

\* variant: the buffer grows by a fixed amount
GrowBufferLinear(size) == size + InitialBufSize

\* variant: the buffer grows fourfold
GrowBufferFourfold(size) == size * 4

\* buf_size *= 2
GrowBuffer(size) == size * 2

SupportRequestName == "SEPIA2_FWR_CreateSupportRequestText"

RECURSIVE Pow2(_)
Pow2(k) == IF k = 0 THEN 1 ELSE 2 * Pow2(k - 1)

\* capacities the loop offers within the bound
Capacities == { InitialBufSize * Pow2(k) : k \in 0..MaxRetries }
MaxCapacity == InitialBufSize * Pow2(MaxRetries)

\* sizes X the stub may need: it answers -1001 while the declared size is
\* below X.  Every finite run of answers (-1001, ..., -1001, s) is the run of
\* such a stub, because the offered sizes grow strictly.
NeedValues ==
    {1, 2, 3} \cup { c \div 2 : c \in Capacities } \cup Capacities
        \cup { c + 1 : c \in Capacities \ {MaxCapacity} }

\* str arguments (code points); 55296 is a lone surrogate, which
\* str.encode rejects for utf-8 and ascii alike
Strings == { <<80>>, <<55296>> }
StrEncodable(s) == \A i \in 1..Len(s) : s[i] < 128

NoBuffer == [id |-> 0, cap |-> 0, content |-> <<>>]
NoStub == [need |-> 0, final |-> 0, text |-> <<>>]

\* answer of the native stub to a call that declares `size` bytes
StubAnswer(st, size) ==
    IF size >= st.need THEN st.final ELSE MemoryAllocationError

(***************************************************************************)
(* State machine of the Sepia library wrapper                              *)
(***************************************************************************)
NoResult ==
    [kind |-> "none", value |-> None, exc |-> NoExc, calls |-> <<>>, trace |-> <<>>]

NoArgs == [none |-> TRUE]

\* no wrapper object is followed / nothing is held for it
NoObject == [lib |-> ""]
NoNative == [lib |-> ""]

Init ==
    /\ op = ""
    /\ args = NoArgs
    /\ result = NoResult
    /\ nativeLog = <<>>
    /\ pc = "idle"
    /\ buf_size = 0
    /\ error_code = 0
    /\ c_buffer = NoBuffer
    /\ allocs = 0
    /\ stub = NoStub
    /\ self = NoObject
    /\ native = NoNative

\* a method call that runs from entry to return or raise in one step
Finish(name, a, o) ==
    /\ op' = name
    /\ args' = a
    /\ result' = o
    /\ nativeLog' = result'.calls
    /\ pc' = "done"
    /\ UNCHANGED <<buf_size, error_code, c_buffer, allocs, stub, self, native>>

\* the caller has looked at the outcome and goes on to its next call
NextCall ==
    /\ pc = "done"
    /\ op' = ""
    /\ args' = NoArgs
    /\ result' = NoResult
    /\ nativeLog' = <<>>
    /\ pc' = "idle"
    /\ buf_size' = 0
    /\ error_code' = 0
    /\ c_buffer' = NoBuffer
    /\ allocs' = 0
    /\ stub' = NoStub
    /\ UNCHANGED <<self, native>>

FunctionNames == { None, Some(GetVersionName) }

CallCheckError ==
    /\ pc = "idle"
    /\ \E e \in SepiaCodes, f \in FunctionNames, d \in DecoderStubs :
          Finish("check_error", [exit_code |-> e, function_name |-> f],
                 check_error(e, f, d))

CallLibDecodeError ==
    /\ pc = "idle"
    /\ \E c \in SepiaCodes, d \in DecoderStubs :
          Finish("lib_decode_error", [error_code |-> c], lib_decode_error(c, d))

CallLibGetVersion ==
    /\ pc = "idle"
    /\ \E ret \in SepiaCodes, text \in BufferTexts, d \in DecoderStubs :
          Finish("lib_get_version", NoArgs, lib_get_version(ret, text, d))

\* lists handed to the setters: lengths around 8, a few contents each
ListLengths == (Channels - ListSlack)..(Channels + ListSlack)
BoolLists ==
    { [i \in 1..n |-> TRUE] : n \in ListLengths }
        \cup { [i \in 1..n |-> i % 2 = 1] : n \in ListLengths }
IntLists ==
    { [i \in 1..n |-> i] : n \in ListLengths }
        \cup { [i \in 1..n |-> 0] : n \in ListLengths }

CallSomSetOutNSyncEnable ==
    /\ pc = "idle"
    /\ \E out \in BoolLists, sync \in BoolLists, inv \in BOOLEAN,
          ret \in SepiaCodes, d \in DecoderStubs :
          Finish("som_set_out_n_sync_enable",
                 [out_enable_list |-> out, sync_enable_list |-> sync,
                  sync_inverse |-> inv],
                 som_set_out_n_sync_enable(0, 0, out, sync, inv, ret, d))

CallSomdSetOutNSyncEnable ==
    /\ pc = "idle"
    /\ \E out \in BoolLists, sync \in BoolLists, inv \in BOOLEAN,
          ret \in SepiaCodes, d \in DecoderStubs :
          Finish("somd_set_out_n_sync_enable",
                 [out_enable_list |-> out, sync_enable_list |-> sync,
                  sync_inverse |-> inv],
                 somd_set_out_n_sync_enable(0, 0, out, sync, inv, ret, d))

CallSomSetBurstLengthArray ==
    /\ pc = "idle"
    /\ \E bl \in IntLists, ret \in SepiaCodes, d \in DecoderStubs :
          Finish("som_set_burst_length_array", [burst_lengths |-> bl],
                 som_set_burst_length_array(0, 0, bl, ret, d))

CallSomdSetBurstLengthArray ==
    /\ pc = "idle"
    /\ \E bl \in IntLists, ret \in SepiaCodes, d \in DecoderStubs :
          Finish("somd_set_burst_length_array", [burst_lengths |-> bl],
                 somd_set_burst_length_array(0, 0, bl, ret, d))

\* working modes the native library reports in the model; 2 is no member of
\* PicoquantSepia2WorkingMode
ReportedModes == {0, 1, 2}

CallFwrGetWorkingMode ==
    /\ pc = "idle"
    /\ \E ret \in SepiaCodes, mode \in ReportedModes, d \in DecoderStubs :
          Finish("fwr_get_working_mode", NoArgs, fwr_get_working_mode(0, ret, mode, d))

\* fwr_create_support_request_text up to the loop head: the two str
\* arguments are encoded into buffers, buf_size and error_code are set
FwrBegin ==
    /\ pc = "idle"
    /\ \E preamble \in Strings, calling_sw \in Strings, need \in NeedValues,
          final \in SepiaCodes \ {MemoryAllocationError}, text \in BufferTexts :
          LET a == [preamble |-> preamble, calling_sw |-> calling_sw]
          IN  IF ~StrEncodable(preamble) \/ ~StrEncodable(calling_sw)
              THEN Finish("fwr_create_support_request_text", a,
                          handle_errors(Raise(PyExc("UnicodeEncodeError"), <<>>, <<>>)))
              ELSE /\ op' = "fwr_create_support_request_text"
                   /\ args' = a
                   /\ result' = NoResult
                   /\ nativeLog' = <<>>
                   /\ pc' = "loop"
                   /\ buf_size' = InitialBufSize
                   /\ error_code' = MemoryAllocationError
                   /\ c_buffer' = NoBuffer
                   /\ allocs' = 2
                   /\ stub' = [need |-> need, final |-> final, text |-> text]
                   /\ UNCHANGED <<self, native>>

\* one iteration of the loop: a new buffer, one native call, buf_size doubled
FwrLoop ==
    /\ pc = "loop"
    /\ RetryNeeded(error_code)
    /\ buf_size <= 2 * MaxCapacity
    /\ LET ret == StubAnswer(stub, buf_size)
           out == IF ret = 0 THEN stub.text ELSE <<>>
       IN  /\ c_buffer' = [id |-> allocs + 1, cap |-> buf_size, content |-> out]
           /\ allocs' = allocs + 1
           /\ nativeLog' = Append(nativeLog,
                                  NativeCall(SupportRequestName, <<0, 0>>, buf_size,
                                             allocs + 1, buf_size, ret, out))
           /\ error_code' = ret
           /\ buf_size' = GrowBuffer(buf_size)
    /\ UNCHANGED <<op, args, result, pc, stub, self, native>>

\* after the loop: check_error on the last status, then the text is decoded
FwrExit ==
    /\ pc = "loop"
    /\ ~RetryNeeded(error_code)
    /\ \E d \in DecoderStubs :
          /\ result' = handle_errors(
                           After(nativeLog,
                                 Then(check_error(error_code, Some(SupportRequestName), d),
                                      DecodeBuffer(c_buffer.content))))
          /\ nativeLog' = result'.calls
    /\ pc' = "done"
    /\ UNCHANGED <<op, args, buf_size, error_code, c_buffer, allocs, stub, self, native>>

Next ==
    \/ CallCheckError
    \/ CallLibDecodeError
    \/ CallLibGetVersion
    \/ CallSomSetOutNSyncEnable
    \/ CallSomdSetOutNSyncEnable
    \/ CallSomSetBurstLengthArray
    \/ CallSomdSetBurstLengthArray
    \/ CallFwrGetWorkingMode
    \/ FwrBegin
    \/ FwrLoop
    \/ FwrExit
    \/ NextCall

Spec == Init /\ [][Next]_vars

(***************************************************************************)
(* Andor: atmcd64d_utils / Atmcd64dLib.error_check, get_temperature        *)
(***************************************************************************)
\* the values of the members of Atmcd64dExitCodes
Atmcd64dExitCodes ==
    (20001..20015) \cup (20017..20029) \cup (20033..20040) \cup (20049..20055) \cup
    (20064..20087) \cup (20089..20101) \cup (20115..20119) \cup {20121} \cup
    (20130..20131) \cup (20150..20156) \cup (20173..20195) \cup {20211} \cup
    (20990..20992)

DRV_SUCCESS == 20002
DRV_TEMP_NOT_STABILIZED == 20035
DRV_TEMP_STABILIZED == 20036
DRV_TEMP_NOT_REACHED == 20037

TEMPERATURE_IGNORE_ERRORS ==
    {DRV_TEMP_NOT_STABILIZED, DRV_TEMP_STABILIZED, DRV_TEMP_NOT_REACHED}

\* Atmcd64dLibError(error_code, error_message, function_name): error_code
\* becomes the enum member when the code is one, else stays the integer
Atmcd64dLibError(c, m, f) ==
    [type |-> "Atmcd64dLibError",
     error_code |-> Some([member |-> c \in Atmcd64dExitCodes, value |-> c]),
     error_message |-> m, function_name |-> f, cause |-> ""]

\* variant: the conversion to the enum has no except clause
Atmcd64dLibError_init_strict(c, m, f) ==
    IF c \in Atmcd64dExitCodes
    THEN Return(Some(Atmcd64dLibError(c, m, f)), <<>>, <<>>)
    ELSE Raise(PyExc("ValueError"), <<>>, <<>>)

\* Atmcd64dLibError.__init__ run on an integer code: the conversion, the
\* message and super().__init__; the new exception is the value
Atmcd64dLibError_init(c, m, f) ==
    Return(Some(Atmcd64dLibError(c, m, f)), <<>>, <<>>)

\* Atmcd64dExitCodes(value): the member, or ValueError
ToAtmcd64dExitCodes(value) ==
    IF value \in Atmcd64dExitCodes
    THEN Return(Some([member |-> TRUE, value |-> value]), <<>>, <<>>)
    ELSE Raise(PyExc("ValueError"), <<>>, <<>>)

\* variant: the ignore list is not consulted
error_check_without_ignore(code, function_name, error_msg, ignore) ==
    IF code = DRV_SUCCESS THEN Return(None, <<>>, <<"error_check">>)
    ELSE Raise(Atmcd64dLibError(code, error_msg, function_name), <<>>, <<"error_check">>)

\* error_check(code, function_name, error_msg, ignore); ignore is the set of
\* the codes of the list passed, the empty set for None
error_check(code, function_name, error_msg, ignore) ==
    IF code = DRV_SUCCESS THEN Return(None, <<>>, <<"error_check">>)
    ELSE IF ignore # {} /\ code \in ignore THEN Return(None, <<>>, <<"error_check">>)
    ELSE Raise(Atmcd64dLibError(code, error_msg, function_name), <<>>, <<"error_check">>)

\* get_status(); code is what the native GetStatus returns, status what it
\* writes to c_status
get_status(code, status) ==
    LET call == NativeCall("GetStatus", <<>>, 0, 0, 0, code, <<status>>)
    IN  After(<<call>>,
              Then(error_check(code, Some("GetStatus"), Some(<<>>), {}),
                   ToAtmcd64dExitCodes(status)))

\* get_temperature(); code and temperature are what the native GetTemperature
\* returns and writes to c_temperature
get_temperature(code, temperature) ==
    LET call == NativeCall("GetTemperature", <<>>, 0, 0, 0, code, <<temperature>>)
    IN  After(<<call>>,
              Then(error_check(code, Some("GetTemperature"), Some(<<>>),
                               TEMPERATURE_IGNORE_ERRORS),
                   Return(Some(temperature), <<>>, <<>>)))

(***************************************************************************)
(* State machine of the Andor library wrapper                              *)
(***************************************************************************)
\* status codes the native Andor library returns in the model; 99 is no
\* member of Atmcd64dExitCodes
AtmcdCodes ==
    {DRV_SUCCESS, 20013, 20034, DRV_TEMP_NOT_STABILIZED, DRV_TEMP_STABILIZED,
     DRV_TEMP_NOT_REACHED, 20038, 20075, 99}

Temperatures == {-60, 0, 20}

IgnoreLists ==
    { {}, TEMPERATURE_IGNORE_ERRORS, {20034}, {DRV_SUCCESS, 20075},
      {DRV_TEMP_STABILIZED}, {99} }

AtmcdFunctionNames == { Some("GetTemperature"), Some("CoolerON") }

CallErrorCheck ==
    /\ pc = "idle"
    /\ \E code \in AtmcdCodes, f \in AtmcdFunctionNames, ignore \in IgnoreLists :
          Finish("error_check",
                 [code |-> code, function_name |-> f, ignore |-> ignore],
                 error_check(code, f, Some(<<>>), ignore))

CallGetTemperature ==
    /\ pc = "idle"
    /\ \E code \in AtmcdCodes, t \in Temperatures :
          Finish("get_temperature", NoArgs, get_temperature(code, t))

\* integer codes an Atmcd64dLibError is built with in the model
ErrorCodes == AtmcdCodes \cup {0, -1, 20991}

CallAtmcd64dLibError ==
    /\ pc = "idle"
    /\ \E code \in ErrorCodes, f \in AtmcdFunctionNames \cup {None} :
          Finish("Atmcd64dLibError", [error_code |-> code, function_name |-> f],
                 Atmcd64dLibError_init(code, Some(<<>>), f))

CallGetStatus ==
    /\ pc = "idle"
    /\ \E code \in AtmcdCodes, status \in AtmcdCodes :
          Finish("get_status", NoArgs, get_status(code, status))

NextAtmcd ==
    \/ CallErrorCheck
    \/ CallGetTemperature
    \/ CallAtmcd64dLibError
    \/ CallGetStatus
    \/ NextCall

SpecAtmcd == Init /\ [][NextAtmcd]_vars

(***************************************************************************)
(* Properties                                                              *)
(***************************************************************************)
Done(name) == pc = "done" /\ op = name

\* the native calls of the current method call to the function fn
CallsTo(fn) == SelectSeq(nativeLog, LAMBDA c : c.fn = fn)

IsSepiaLibError(e) == e.type = "PicoquantSepia2LibError"

\* C1: check_error(e, f) returns without a native decode call when e = 0;
\* for e # 0 it raises PicoquantSepia2LibError(e, m, f), where m is the text
\* of the first native decode of e when that reported success and its bytes
\* decoded, and None in every other case; no other exception comes out of it.
C1_CheckError ==
    Done("check_error") =>
        IF args.exit_code = 0
        THEN /\ result.kind = "return"
             /\ nativeLog = <<>>
             /\ result.trace = <<"check_error">>
        ELSE /\ result.kind = "raise"
             /\ IsSepiaLibError(result.exc)
             /\ result.exc.cause = ""
             /\ result.exc.error_code = Some(args.exit_code)
             /\ result.exc.function_name = args.function_name
             /\ Len(nativeLog) >= 1
             /\ nativeLog[1].fn = DecodeErrorName
             /\ nativeLog[1].arg = <<args.exit_code>>
             /\ IF nativeLog[1].ret = 0 /\ StrDecodable(CValue(nativeLog[1].out))
                THEN result.exc.error_message = Some(CValue(nativeLog[1].out))
                ELSE result.exc.error_message = None

\* C1 witness: the decoder failed locally (status 0, undecodable bytes) and
\* check_error raised the caller's code with no message
C1_Witness ==
    /\ Done("check_error")
    /\ args.exit_code = -9004
    /\ Len(nativeLog) = 1
    /\ nativeLog[1].ret = 0
    /\ ~StrDecodable(CValue(nativeLog[1].out))
    /\ result.kind = "raise"
    /\ result.exc.error_code = Some(-9004)
    /\ result.exc.error_message = None

C3_DecodingBounded ==
    /\ Done("lib_decode_error") =>
          /\ Len(nativeLog) = (IF nativeLog[1].ret = 0 THEN 1 ELSE 2)
          /\ \A i \in 1..Len(nativeLog) : nativeLog[i].fn = DecodeErrorName
          /\ result.trace = <<"lib_decode_error">>
    /\ (Done("check_error") /\ args.exit_code # 0) =>
          /\ Len(CallsTo(DecodeErrorName)) \in {1, 2}
          /\ Len(nativeLog) = Len(CallsTo(DecodeErrorName))
          /\ result.trace = <<"check_error", "lib_decode_error">>
          /\ result.kind = "raise"
    /\ pc = "done" => Len(CallsTo(DecodeErrorName)) <= 2

\* C3 witness: check_error on a non-zero code with both native decodes failing
C3_Witness ==
    /\ Done("check_error")
    /\ args.exit_code # 0
    /\ Len(nativeLog) = 2
    /\ nativeLog[1].ret # 0
    /\ nativeLog[2].ret # 0
    /\ result.kind = "raise"

\* the wrapped methods of PicoquantSepia2Lib in the model
WrappedMethods ==
    {"lib_decode_error", "lib_get_version", "fwr_create_support_request_text",
     "som_set_out_n_sync_enable", "somd_set_out_n_sync_enable",
     "som_set_burst_length_array", "somd_set_burst_length_array"}

\* the call ended in an exception that handle_errors converted
LocalFailure ==
    /\ pc = "done"
    /\ op \in WrappedMethods
    /\ result.kind = "raise"
    /\ result.exc.cause # ""

\* C4: a wrapped method that fails locally with an exception other than
\* PicoquantSepia2LibError hands its caller a PicoquantSepia2LibError with no
\* status code that names the function that failed.
C4_LocalFailureKeepsFunctionName ==
    LocalFailure =>
        /\ IsSepiaLibError(result.exc)
        /\ result.exc.error_code = None
        /\ result.exc.function_name # None

\* C5: every PicoquantSepia2LibError that reaches the caller of a method of
\* PicoquantSepia2Lib carries at least one of error_code, error_message,
\* function_name.
C5_ErrorCarriesInformation ==
    (pc = "done" /\ result.kind = "raise" /\ IsSepiaLibError(result.exc)) =>
        ~ /\ result.exc.error_code = None
          /\ result.exc.error_message = None
          /\ result.exc.function_name = None

\* C6: error_check(code, name, ignore=S) raises Atmcd64dLibError exactly when
\* code is neither DRV_SUCCESS nor in S; get_temperature returns the
\* temperature the native call wrote when the native status is DRV_SUCCESS,
\* DRV_TEMP_NOT_STABILIZED, DRV_TEMP_STABILIZED or DRV_TEMP_NOT_REACHED, and
\* raises Atmcd64dLibError for every other status.
C6_ErrorCheckIgnore ==
    /\ Done("error_check") =>
          /\ result.kind = "raise" <=>
                (args.code # 20002 /\ args.code \notin args.ignore)
          /\ result.kind = "raise" =>
                /\ result.exc.type = "Atmcd64dLibError"
                /\ result.exc.error_code[1].value = args.code
                /\ result.exc.function_name = args.function_name
          /\ result.kind # "raise" => result.kind = "return"
    /\ Done("get_temperature") =>
          /\ Len(nativeLog) = 1
          /\ IF nativeLog[1].ret \in {20002, 20035, 20036, 20037}
             THEN /\ result.kind = "return"
                  /\ result.value = Some(nativeLog[1].out[1])
             ELSE /\ result.kind = "raise"
                  /\ result.exc.type = "Atmcd64dLibError"
                  /\ result.exc.error_code[1].value = nativeLog[1].ret
                  /\ result.exc.function_name = Some("GetTemperature")

\* C6 witness: get_temperature returned the temperature under an ignored status
C6_Witness ==
    /\ Done("get_temperature")
    /\ nativeLog[1].ret = 20037
    /\ result.kind = "return"
    /\ result.value = Some(-60)

\* the native calls of the retry loop made so far
LoopCalls == CallsTo(SupportRequestName)

\* fwr_create_support_request_text got past the encoding of its arguments
InRetryWrapper ==
    /\ op = "fwr_create_support_request_text"
    /\ pc \in {"loop", "done"}
    /\ StrEncodable(args.preamble)
    /\ StrEncodable(args.calling_sw)

\* C7: the retry loop makes at least one native call; the k-th call
\* (k = 0, 1, ...) gets a newly allocated buffer of 8192 * 2^k bytes and that
\* number as declared size; a call follows another only when that one
\* returned -1001, and the loop is not left while the last call returned
\* -1001; the last status goes to check_error (a non-zero one is raised under
\* the function's name), and a returned text is the decoded content of the
\* last call's buffer.
C7_RetryLoop ==
    InRetryWrapper =>
        LET L == LoopCalls
            n == Len(L)
        IN  /\ \A k \in 1..n :
                  /\ L[k].cap = 8192 * Pow2(k - 1)
                  /\ L[k].size = L[k].cap
                  /\ \A j \in 1..(k - 1) : L[j].buf # L[k].buf
                  /\ k < n => L[k].ret = -1001
            /\ pc = "done" =>
                  /\ n >= 1
                  /\ L[n].ret # -1001
                  /\ L[n].buf = c_buffer.id
                  /\ L[n].ret # 0 =>
                        /\ result.kind = "raise"
                        /\ result.exc.error_code = Some(L[n].ret)
                        /\ result.exc.function_name =
                              Some("SEPIA2_FWR_CreateSupportRequestText")
                  /\ result.kind = "return" =>
                        /\ L[n].ret = 0
                        /\ result.value = Some(CValue(L[n].out))
                  /\ (L[n].ret = 0 /\ StrDecodable(CValue(L[n].out))) =>
                        result.kind = "return"

\* C7 witness: two retries, then success and the text of the third buffer
C7_Witness ==
    /\ InRetryWrapper
    /\ pc = "done"
    /\ Len(LoopCalls) = 3
    /\ LoopCalls[3].cap = 32768
    /\ result.kind = "return"
    /\ result.value = Some(<<69>>)

\* ceil(log2(x / c)) for integers x, c >= 1: the n with 2^(n-1) < x/c <= 2^n
RECURSIVE HalvingsWithin(_, _)
HalvingsWithin(x, c) == IF 2 * x <= c THEN 1 + HalvingsWithin(2 * x, c) ELSE 0
RECURSIVE DoublingsToReach(_, _)
DoublingsToReach(x, c) == IF c >= x THEN 0 ELSE 1 + DoublingsToReach(x, 2 * c)
CeilLog2Ratio(x, c) ==
    IF x <= c THEN 0 - HalvingsWithin(x, c) ELSE DoublingsToReach(x, c)

\* the stub of the current call succeeds (status 0, decodable text) once the
\* offered capacity reaches stub.need, and the call has finished
ThresholdStubDone ==
    /\ InRetryWrapper
    /\ pc = "done"
    /\ stub.final = 0
    /\ StrDecodable(CValue(stub.text))

\* C8 as stated: with a stub that answers -1001 until the capacity is at least
\* X, exactly ceil(log2(X / 8192)) + 1 native calls are issued and the call
\* returns successfully.
C8_CallCountAsStated ==
    ThresholdStubDone =>
        /\ Len(LoopCalls) = CeilLog2Ratio(stub.need, 8192) + 1
        /\ result.kind = "return"

\* C8 amended: with such a stub exactly max(0, ceil(log2(X / 8192))) + 1 native
\* calls are issued (one call for every X <= 8192), the last one with the
\* first offered capacity that is at least X, and the call returns the text.
C8_CallCount ==
    ThresholdStubDone =>
        LET c == CeilLog2Ratio(stub.need, 8192)
            n == Len(LoopCalls)
        IN  /\ n = (IF c < 0 THEN 0 ELSE c) + 1
            /\ LoopCalls[n].cap >= stub.need
            /\ \A k \in 1..(n - 1) : LoopCalls[k].cap < stub.need
            /\ result.kind = "return"
            /\ result.value = Some(CValue(stub.text))

\* C8 witness: X = 16385 needs three calls (8192, 16384, 32768)
C8_Witness ==
    /\ ThresholdStubDone
    /\ stub.need = 16385
    /\ Len(LoopCalls) = 3
    /\ result.kind = "return"

\* the four setters that take a sequence of 8 elements
IsOutNSyncSetter == op \in {"som_set_out_n_sync_enable", "somd_set_out_n_sync_enable"}
IsBurstSetter == op \in {"som_set_burst_length_array", "somd_set_burst_length_array"}

\* a finished setter call whose sequence argument has not 8 elements
WrongLengthCall ==
    /\ pc = "done"
    /\ \/ /\ IsOutNSyncSetter
          /\ Len(args.out_enable_list) # 8 \/ Len(args.sync_enable_list) # 8
       \/ /\ IsBurstSetter
          /\ Len(args.burst_lengths) # 8

C10_WrongLengthRaisesValueError ==
    WrongLengthCall =>
        /\ result.kind = "raise"
        /\ result.exc.type = "ValueError"

(***************************************************************************)
(* SOM / SOMD enable masks: som_get_out_n_sync_enable and                  *)
(* somd_get_out_n_sync_enable, and the conversions between a mask byte and *)
(* the tuple of 8 booleans                                                 *)
(***************************************************************************)
\* f"{v:b}": the binary digits of v, most significant first
RECURSIVE BinDigits(_)
BinDigits(v) ==
    IF v < 2 THEN <<v>> ELSE Append(BinDigits(v \div 2), v % 2)

\* variant: the digits come least significant first
Format08bLsbFirst(v) ==
    LET ds == BinDigits(v)
        n  == IF Len(ds) < 8 THEN 8 ELSE Len(ds)
    IN  [i \in 1..n |-> IF i <= Len(ds) THEN ds[Len(ds) + 1 - i] ELSE 0]

\* variant: f"{v:b}", no zero fill
FormatB(v) == BinDigits(v)

\* f"{v:08b}": the digits filled with zeros on the left up to 8 characters
Format08b(v) ==
    LET ds == BinDigits(v)
        n  == IF Len(ds) < 8 THEN 8 - Len(ds) ELSE 0
    IN  [i \in 1..n |-> 0] \o ds

\* tuple(bool(int(b)) for b in digits)
DigitsToBools(ds) == [i \in 1..Len(ds) |-> ds[i] # 0]

\* som_get_out_n_sync_enable(device_id, slot_id); ret is the native status,
\* b_out, b_sync, b_inv the bytes written to the three c_ubyte outputs
som_get_out_n_sync_enable(device_id, slot_id, ret, b_out, b_sync, b_inv, d) ==
    LET name == "SEPIA2_SOM_GetOutNSyncEnable"
        call == NativeCall(name, <<device_id, slot_id>>, 0, 0, 0, ret,
                           <<b_out, b_sync, b_inv>>)
        out_enable  == DigitsToBools(Format08b(b_out))
        sync_enable == DigitsToBools(Format08b(b_sync))
    IN  handle_errors(
            After(<<call>>,
                  Then(check_error(ret, Some(name), d),
                       Return(Some([out_enable |-> out_enable,
                                    sync_enable |-> sync_enable,
                                    sync_inverse |-> b_inv # 0]), <<>>, <<>>))))

somd_get_out_n_sync_enable(device_id, slot_id, ret, b_out, b_sync, b_inv, d) ==
    LET name == "SEPIA2_SOMD_GetOutNSyncEnable"
        call == NativeCall(name, <<device_id, slot_id>>, 0, 0, 0, ret,
                           <<b_out, b_sync, b_inv>>)
        out_enable  == DigitsToBools(Format08b(b_out))
        sync_enable == DigitsToBools(Format08b(b_sync))
    IN  handle_errors(
            After(<<call>>,
                  Then(check_error(ret, Some(name), d),
                       Return(Some([out_enable |-> out_enable,
                                    sync_enable |-> sync_enable,
                                    sync_inverse |-> b_inv # 0]), <<>>, <<>>))))

(***************************************************************************)
(* State machine of the enable masks: the caller reads the masks and       *)
(* writes back what it read, or writes masks and reads them back; each is  *)
(* done on a SOM and on a SOMD module                                      *)
(***************************************************************************)
\* every value a c_ubyte output can hold
UByteValues == 0..255

\* the sync masks and the sync_inverse bytes the device holds in the model
SyncBytes == {0, 165}
InverseBytes == {0, 1, 2}

\* every sequence of exactly 8 booleans
BoolLists8 == [1..Channels -> BOOLEAN]
SyncLists8 == { [i \in 1..Channels |-> FALSE], [i \in 1..Channels |-> i % 2 = 1] }

\* the error decoder of the library answers
CodecDecoders ==
    { d \in DecoderStubs : d.r1 = 0 /\ d.r2 = 0 /\ d.t1 = <<79, 75>> /\ d.t2 = <<79, 75>> }

\* the bytes a setter handed to the device: the arguments of its native call
WrittenBytes(s) ==
    LET a == s.calls[Len(s.calls)].arg IN <<a[3], a[4], a[5]>>

\* set(*get()) on a SOM and on a SOMD module
ReadThenWrite ==
    /\ pc = "idle"
    /\ \E b_out \in UByteValues, b_sync \in SyncBytes, b_inv \in InverseBytes,
          r1 \in SepiaCodes, r2 \in SepiaCodes, d \in CodecDecoders :
          LET g1 == som_get_out_n_sync_enable(0, 0, r1, b_out, b_sync, b_inv, d)
              g2 == somd_get_out_n_sync_enable(0, 0, r1, b_out, b_sync, b_inv, d)
              v1 == g1.value[1]
              v2 == g2.value[1]
              som  == IF g1.kind # "return" THEN g1
                      ELSE After(g1.calls,
                                 som_set_out_n_sync_enable(
                                     0, 0, v1.out_enable, v1.sync_enable,
                                     v1.sync_inverse, r2, d))
              somd == IF g2.kind # "return" THEN g2
                      ELSE After(g2.calls,
                                 somd_set_out_n_sync_enable(
                                     0, 0, v2.out_enable, v2.sync_enable,
                                     v2.sync_inverse, r2, d))
          IN  /\ op' = "read_then_write"
              /\ args' = [read |-> [som |-> g1.value, somd |-> g2.value]]
              /\ result' = [kind |-> "both", som |-> som, somd |-> somd]
              /\ nativeLog' = som.calls \o somd.calls
              /\ pc' = "done"
              /\ UNCHANGED <<buf_size, error_code, c_buffer, allocs, stub, self, native>>

\* get() after set() on a SOM and on a SOMD module; the device answers with
\* the bytes the setter handed to it
WriteThenRead ==
    /\ pc = "idle"
    /\ \E out \in BoolLists8, sync \in SyncLists8, inv \in BOOLEAN,
          r1 \in SepiaCodes, r2 \in SepiaCodes, d \in CodecDecoders :
          LET s1 == som_set_out_n_sync_enable(0, 0, out, sync, inv, r1, d)
              s2 == somd_set_out_n_sync_enable(0, 0, out, sync, inv, r1, d)
              b1 == WrittenBytes(s1)
              b2 == WrittenBytes(s2)
              som  == IF s1.kind # "return" THEN s1
                      ELSE After(s1.calls,
                                 som_get_out_n_sync_enable(
                                     0, 0, r2, b1[1], b1[2], b1[3], d))
              somd == IF s2.kind # "return" THEN s2
                      ELSE After(s2.calls,
                                 somd_get_out_n_sync_enable(
                                     0, 0, r2, b2[1], b2[2], b2[3], d))
          IN  /\ op' = "write_then_read"
              /\ args' = [out_enable_list |-> out, sync_enable_list |-> sync,
                          sync_inverse |-> inv]
              /\ result' = [kind |-> "both", som |-> som, somd |-> somd]
              /\ nativeLog' = som.calls \o somd.calls
              /\ pc' = "done"
              /\ UNCHANGED <<buf_size, error_code, c_buffer, allocs, stub, self, native>>

NextCodec ==
    \/ ReadThenWrite
    \/ WriteThenRead
    \/ NextCall

SpecCodec == Init /\ [][NextCodec]_vars

(***************************************************************************)
(* Properties of the enable masks                                          *)
(***************************************************************************)
\* the getters returned and the caller wrote back what it read
WroteBack ==
    /\ pc = "done"
    /\ op = "read_then_write"
    /\ args.read.som # None
    /\ args.read.somd # None

\* C11: for every byte b the device reports as a mask, the tuple of 8
\* booleans the getter builds from b, handed to the setter, is encoded to
\* exactly b again; the SOM and the SOMD methods build the same tuple and
\* the same byte
C11_ByteRoundTrip ==
    WroteBack =>
        LET som  == result.som.calls
            somd == result.somd.calls
        IN  /\ Len(som) >= 2 /\ Len(somd) >= 2
            /\ Len(args.read.som[1].out_enable) = Channels
            /\ Len(args.read.som[1].sync_enable) = Channels
            /\ som[2].arg[3] = som[1].out[1]
            /\ som[2].arg[4] = som[1].out[2]
            /\ somd[2].arg[3] = somd[1].out[1]
            /\ somd[2].arg[4] = somd[1].out[2]
            /\ args.read.som = args.read.somd
            /\ som[2].arg = somd[2].arg

\* the device reported 6 (leading zeros) and 6 was written back
C11_Witness ==
    /\ WroteBack
    /\ result.som.calls[1].out[1] = 6
    /\ args.read.som[1].out_enable =
           <<FALSE, FALSE, FALSE, FALSE, FALSE, TRUE, TRUE, FALSE>>
    /\ result.som.calls[2].arg[3] = 6
    /\ result.somd.calls[2].arg[3] = 6

\* the setters returned and the getters returned what the device then held
ReadBackDone ==
    /\ pc = "done"
    /\ op = "write_then_read"
    /\ result.som.kind = "return"
    /\ result.somd.kind = "return"

\* C12: for every sequence of exactly 8 booleans, encoding it as
\* som_set_out_n_sync_enable / somd_set_out_n_sync_enable do and decoding the
\* byte as the getters do returns the same 8 booleans in the same order; the
\* first element is the most significant bit
C12_ListRoundTrip ==
    ReadBackDone =>
        LET som  == result.som
            somd == result.somd
        IN  /\ som.value[1].out_enable = args.out_enable_list
            /\ som.value[1].sync_enable = args.sync_enable_list
            /\ somd.value[1].out_enable = args.out_enable_list
            /\ somd.value[1].sync_enable = args.sync_enable_list
            /\ (som.calls[1].arg[3] >= 128) <=> args.out_enable_list[1]
            /\ (som.calls[1].arg[3] % 2 = 1) <=> args.out_enable_list[Channels]
            /\ (somd.calls[1].arg[3] >= 128) <=> args.out_enable_list[1]
            /\ (somd.calls[1].arg[3] % 2 = 1) <=> args.out_enable_list[Channels]

\* only the first channel enabled: the byte is 128 and is read back as written
C12_Witness ==
    /\ ReadBackDone
    /\ args.out_enable_list =
           <<TRUE, FALSE, FALSE, FALSE, FALSE, FALSE, FALSE, FALSE>>
    /\ result.som.calls[1].arg[3] = 128
    /\ result.som.value[1].out_enable = args.out_enable_list

(***************************************************************************)
(* Attocube: AttoDryLib (Attocube/AttoDryLib/AttoDryLib.py)                *)
(*                                                                         *)
(* The methods change the attributes of the object and what the process    *)
(* holds natively, so each is an operator from (object, native, inputs) to *)
(* a step: the outcome, the object and the native side afterwards.         *)
(* An attribute holds "unset" (never assigned), "None", "str" or "dll".    *)
(***************************************************************************)
Step(o, s, n) == [o |-> o, self |-> s, native |-> n]

\* AttoDryLibError(message); cause is the type of the exception it is raised from
AttoDryLibError(message, cause) ==
    [type |-> "AttoDryLibError", error_code |-> None, error_message |-> Some(message),
     function_name |-> None, cause |-> cause]

\* AttoDryLibNonZeroExitCodeError(exit_code, function_name)
AttoDryLibNonZeroExitCodeError(exit_code, function_name) ==
    [type |-> "AttoDryLibNonZeroExitCodeError", error_code |-> Some(exit_code),
     error_message |-> None, function_name |-> function_name, cause |-> ""]

\* AttoDryLibNonZeroExitCodeError.check(exit_code), function_name left None
check(exit_code) ==
    IF exit_code # 0
    THEN Raise(AttoDryLibNonZeroExitCodeError(exit_code, None), <<>>, <<>>)
    ELSE Return(None, <<>>, <<>>)

\* the decorator check_function around a method named func_name
check_function(func_name, o) ==
    IF o.kind # "raise" THEN o
    ELSE IF o.exc.type = "AttoDryLibNonZeroExitCodeError"
    THEN IF o.exc.function_name = None
         THEN Raise([AttoDryLibNonZeroExitCodeError(o.exc.error_code[1], Some(func_name))
                        EXCEPT !.cause = o.exc.type],
                    o.calls, o.trace)
         ELSE o
    ELSE Raise(AttoDryLibError("Function failed unexpectly.", o.exc.type),
               o.calls, o.trace)

\* self._library.<function>: the attribute lookup on what _library holds
HasLibrary(s) == s.library = "dll"

\* the object before __init__ has assigned anything
NewAttoDryLib ==
    [lib |-> "AttoDryLib", begun |-> FALSE, path_to_dll |-> "unset",
     library |-> "unset", held |-> FALSE, deleted |-> FALSE]

\* the process before the library is loaded: no mapping, no FreeLibrary call
\* yet, no session with the device
FreshProcess(lib) == [lib |-> lib, mapped |-> FALSE, frees |-> 0, session |-> FALSE]

\* exit codes the native attoDRY functions return in the model
AttoExitCodes == {0, 1, 56}

\* begin(device_type)
AttoDryLib_begin(s, n, device_type, exit_code) ==
    LET call == NativeCall("AttoDRY_Interface_begin", <<device_type>>, 0, 0, 0,
                           exit_code, <<>>)
        chk  == After(<<call>>, check(exit_code))
    IN  IF ~HasLibrary(s)
        THEN Step(check_function("begin", Raise(PyExc("AttributeError"), <<>>, <<>>)), s, n)
        ELSE Step(check_function("begin", chk),
                  IF chk.kind = "return" THEN [s EXCEPT !.begun = TRUE] ELSE s,
                  IF chk.kind = "return" THEN [n EXCEPT !.session = TRUE] ELSE n)

\* variant: end() without the test of self._begun
AttoDryLib_end_unguarded(s, n, exit_code) ==
    LET call == NativeCall("AttoDRY_Interface_end", <<>>, 0, 0, 0, exit_code, <<>>)
        chk  == After(<<call>>, check(exit_code))
    IN  IF ~HasLibrary(s)
        THEN Step(check_function("end", Raise(PyExc("AttributeError"), <<>>, <<>>)), s, n)
        ELSE Step(check_function("end", chk),
                  IF chk.kind = "return" THEN [s EXCEPT !.begun = FALSE] ELSE s,
                  IF chk.kind = "return" THEN [n EXCEPT !.session = FALSE] ELSE n)

\* end()
AttoDryLib_end(s, n, exit_code) ==
    LET call == NativeCall("AttoDRY_Interface_end", <<>>, 0, 0, 0, exit_code, <<>>)
        chk  == After(<<call>>, check(exit_code))
    IN  IF ~s.begun
        THEN Step(Return(None, <<>>, <<>>), s, n)
        ELSE IF ~HasLibrary(s)
        THEN Step(check_function("end", Raise(PyExc("AttributeError"), <<>>, <<>>)), s, n)
        ELSE Step(check_function("end", chk),
                  IF chk.kind = "return" THEN [s EXCEPT !.begun = FALSE] ELSE s,
                  IF chk.kind = "return" THEN [n EXCEPT !.session = FALSE] ELSE n)

\* _ctypes.FreeLibrary(handle) as the process sees it
FreeLibrary(n) == [n EXCEPT !.mapped = FALSE, !.frees = @ + 1]

FreeLibraryCall == NativeCall("FreeLibrary", <<>>, 0, 0, 0, 0, <<>>)

\* variant: close() leaves self._library as it was
AttoDryLib_close_keeps_library(s, n, exit_code) ==
    LET e == AttoDryLib_end(s, n, exit_code)
    IN  IF ~HasLibrary(e.self)
        THEN Step(Raise(PyExc("AttributeError"), e.o.calls, e.o.trace), e.self, e.native)
        ELSE Step([e.o EXCEPT !.calls = @ \o <<FreeLibraryCall>>],
                  e.self, FreeLibrary(e.native))

\* variant: close() without try / finally
AttoDryLib_close_without_finally(s, n, exit_code) ==
    LET e == AttoDryLib_end(s, n, exit_code)
    IN  IF e.o.kind = "raise" THEN e
        ELSE IF ~HasLibrary(e.self)
        THEN Step(Raise(PyExc("AttributeError"), e.o.calls, e.o.trace), e.self, e.native)
        ELSE Step([e.o EXCEPT !.calls = @ \o <<FreeLibraryCall>>],
                  [e.self EXCEPT !.library = "None"], FreeLibrary(e.native))

\* close(): end(), and in the finally clause FreeLibrary(self._library._handle)
\* and self._library = None; an exception of the finally clause replaces the
\* one of end()
AttoDryLib_close(s, n, exit_code) ==
    LET e == AttoDryLib_end(s, n, exit_code)
    IN  IF ~HasLibrary(e.self)
        THEN Step(Raise(PyExc("AttributeError"), e.o.calls, e.o.trace), e.self, e.native)
        ELSE Step([e.o EXCEPT !.calls = @ \o <<FreeLibraryCall>>],
                  [e.self EXCEPT !.library = "None"], FreeLibrary(e.native))

\* __del__(): the interpreter drops what it raises
AttoDryLib_del(s, n, exit_code) ==
    LET c == AttoDryLib_close(s, n, exit_code)
    IN  IF s.library = "unset"
        THEN Step(Raise(PyExc("AttributeError"), <<>>, <<>>),
                  [s EXCEPT !.held = FALSE, !.deleted = TRUE], n)
        ELSE IF s.library # "None"
        THEN Step(c.o, [c.self EXCEPT !.held = FALSE, !.deleted = TRUE], c.native)
        ELSE Step(Return(None, <<>>, <<>>),
                  [s EXCEPT !.held = FALSE, !.deleted = TRUE], n)

\* disconnect()
AttoDryLib_disconnect(s, n, exit_code) ==
    LET call == NativeCall("AttoDRY_Interface_Disconnect", <<>>, 0, 0, 0, exit_code, <<>>)
    IN  IF ~HasLibrary(s)
        THEN Step(check_function("disconnect",
                                 Raise(PyExc("AttributeError"), <<>>, <<>>)), s, n)
        ELSE Step(check_function("disconnect", After(<<call>>, check(exit_code))), s, n)

\* is_initialized(); initialized is what the native function writes to c_initialized
is_initialized(s, n, exit_code, initialized) ==
    LET call == NativeCall("AttoDRY_Interface_isDeviceInitialised", <<>>, 0, 0, 0,
                           exit_code, <<initialized>>)
    IN  IF ~HasLibrary(s)
        THEN Step(check_function("is_initialized",
                                 Raise(PyExc("AttributeError"), <<>>, <<>>)), s, n)
        ELSE Step(check_function("is_initialized",
                                 After(<<call>>,
                                       Then(check(exit_code),
                                            Return(Some(initialized # 0), <<>>, <<>>)))),
                  s, n)

\* how the DLL name resolves: a file at the path given, a library on the
\* search paths, or nothing
Resolutions == {"file", "search", "none"}

\* the except clause of __init__: "Error loading attoDRY library: " +
\* self._path_to_dll is evaluated before AttoDryLibError is built
LoadingFailed(s, exc_type) ==
    IF s.path_to_dll = "str"
    THEN Raise(AttoDryLibError("Error loading attoDRY library", exc_type), <<>>, <<>>)
    ELSE Raise([PyExc("TypeError") EXCEPT !.cause = exc_type], <<>>, <<>>)

\* AttoDryLib(device_type, path_to_dll): resolution is how the name resolves,
\* loads whether LoadLibrary succeeds, exit_code what the native begin returns
AttoDryLib_init(n, resolution, loads, device_type, exit_code) ==
    LET s0 == NewAttoDryLib
        s1 == [s0 EXCEPT !.path_to_dll = IF resolution = "none" THEN "None" ELSE "str"]
        s2 == [s1 EXCEPT !.library = "dll"]
        n2 == [n EXCEPT !.mapped = TRUE]
        b  == AttoDryLib_begin(s2, n2, device_type, exit_code)
    IN  IF resolution = "none" THEN Step(LoadingFailed(s1, "FileNotFoundError"), s1, n)
        ELSE IF ~loads THEN Step(LoadingFailed(s1, "OSError"), s1, n)
        ELSE Step(b.o, [b.self EXCEPT !.held = (b.o.kind = "return")], b.native)

(***************************************************************************)
(* Andor: life cycle of Atmcd64dLib, get_status                            *)
(***************************************************************************)
\* cooler_on(); code is what the native CoolerON returns
cooler_on(code) ==
    LET call == NativeCall("CoolerON", <<>>, 0, 0, 0, code, <<>>)
    IN  After(<<call>>, error_check(code, Some("CoolerON"), Some(<<>>), {}))

\* the object before __init__ has assigned _dll
NewAtmcd64dLib == [lib |-> "Atmcd64dLib", dll |-> "unset", held |-> FALSE, deleted |-> FALSE]

\* self._dll.<function>: the attribute lookup on what _dll holds
HasDll(s) == s.dll = "dll"

\* a method that looks its native function up in self._dll and then runs as o
OnDll(s, n, o) ==
    IF HasDll(s) THEN Step(o, s, n)
    ELSE Step(Raise(PyExc("AttributeError"), <<>>, <<>>), s, n)

\* Atmcd64dLib(dll_path): win32 is sys.platform == "win32", loads whether
\* LoadLibrary succeeds
Atmcd64dLib_init(n, win32, loads) ==
    LET s0 == NewAtmcd64dLib
    IN  IF ~win32 \/ ~loads
        THEN Step(Raise(PyExc("OSError"), <<>>, <<>>), s0, n)
        ELSE Step(Return(None, <<>>, <<>>),
                  [s0 EXCEPT !.dll = "dll", !.held = TRUE], [n EXCEPT !.mapped = TRUE])

\* shut_down(); code is what the native ShutDown returns
shut_down(s, n, code) ==
    LET call == NativeCall("ShutDown", <<>>, 0, 0, 0, code, <<>>)
        chk  == After(<<call>>, error_check(code, Some("ShutDown"), Some(<<>>), {}))
    IN  IF ~HasDll(s) THEN Step(Raise(PyExc("AttributeError"), <<>>, <<>>), s, n)
        ELSE IF chk.kind = "raise" THEN Step(chk, s, n)
        ELSE Step([chk EXCEPT !.calls = @ \o <<FreeLibraryCall>>],
                  [s EXCEPT !.dll = "None"], FreeLibrary(n))

\* __del__(): the interpreter drops what it raises
Atmcd64dLib_del(s, n, code) ==
    LET c == shut_down(s, n, code)
    IN  IF s.dll = "unset"
        THEN Step(Raise(PyExc("AttributeError"), <<>>, <<>>),
                  [s EXCEPT !.held = FALSE, !.deleted = TRUE], n)
        ELSE IF s.dll # "None"
        THEN Step(c.o, [c.self EXCEPT !.held = FALSE, !.deleted = TRUE], c.native)
        ELSE Step(Return(None, <<>>, <<>>),
                  [s EXCEPT !.held = FALSE, !.deleted = TRUE], n)

(***************************************************************************)
(* HighFinesse: WlmDataLib (HighFinesse/wlmData_library/__init__.py);      *)
(* load_dll and close_dll are imported from the module wlmData             *)
(***************************************************************************)
\* load_dll(path_to_dll): the handle of the loaded library, or
\* FileNotFoundError when no library is found
load_dll(found) ==
    IF found THEN Return(Some("dll"), <<>>, <<>>)
    ELSE Raise(PyExc("FileNotFoundError"), <<>>, <<>>)

\* close_dll(): the library is released once more
close_dll(n) == [n EXCEPT !.mapped = FALSE, !.frees = @ + 1]

CloseDllCall == NativeCall("close_dll", <<>>, 0, 0, 0, 0, <<>>)

NewWlmDataLib == [lib |-> "WlmDataLib", dll |-> "unset", held |-> FALSE, deleted |-> FALSE]

\* WlmDataLib(path_to_dll)
WlmDataLib_init(n, found) ==
    LET l == load_dll(found)
    IN  IF l.kind = "raise" THEN Step(l, NewWlmDataLib, n)
        ELSE Step(Return(None, <<>>, <<>>),
                  [NewWlmDataLib EXCEPT !.dll = l.value[1], !.held = TRUE],
                  [n EXCEPT !.mapped = TRUE])

\* close()
WlmDataLib_close(s, n) ==
    Step(Return(None, <<CloseDllCall>>, <<>>), s, close_dll(n))

\* __del__()
WlmDataLib_del(s, n) ==
    LET c == WlmDataLib_close(s, n)
    IN  IF s.dll = "unset"
        THEN Step(Raise(PyExc("AttributeError"), <<>>, <<>>),
                  [s EXCEPT !.held = FALSE, !.deleted = TRUE], n)
        ELSE IF s.dll # "None"
        THEN Step(c.o, [c.self EXCEPT !.held = FALSE, !.deleted = TRUE], c.native)
        ELSE Step(Return(None, <<>>, <<>>),
                  [s EXCEPT !.held = FALSE, !.deleted = TRUE], n)

(***************************************************************************)
(* State machine of one wrapper object from construction to deletion       *)
(***************************************************************************)
\* close() calls on one WlmDataLib object the caller makes at most
MaxCloses == 3

AttoDryDevices == {1, 2}

\* one call on the object (or its construction): st is the step it makes
Act(name, a, st) ==
    /\ op' = name
    /\ args' = a
    /\ \E s \in {st} :
          /\ result' = s.o
          /\ nativeLog' = s.o.calls
          /\ self' = s.self
          /\ native' = s.native
    /\ pc' = "done"
    /\ UNCHANGED <<buf_size, error_code, c_buffer, allocs, stub>>

\* the caller holds an object of class lib and is free to call it
Holds(lib) == pc = "idle" /\ self.lib = lib /\ self.held

\* an object of class lib exists and is dropped by the caller or, when its
\* construction failed, was never handed to the caller
Droppable(lib) == pc = "idle" /\ self.lib = lib /\ ~self.deleted

NewAttoDryLibObject ==
    /\ pc = "idle"
    /\ self = NoObject
    /\ \E r \in Resolutions, loads \in BOOLEAN, dt \in AttoDryDevices, e \in AttoExitCodes :
          Act("AttoDryLib.__init__",
              [device_type |-> dt, resolution |-> r, loads |-> r # "none" /\ loads],
              AttoDryLib_init(FreshProcess("AttoDryLib"), r, loads, dt, e))

CallBegin ==
    /\ Holds("AttoDryLib")
    /\ \E dt \in AttoDryDevices, e \in AttoExitCodes :
          Act("AttoDryLib.begin", [device_type |-> dt],
              AttoDryLib_begin(self, native, dt, e))

CallEnd ==
    /\ Holds("AttoDryLib")
    /\ \E e \in AttoExitCodes :
          Act("AttoDryLib.end", [library |-> self.library, begun |-> self.begun],
              AttoDryLib_end(self, native, e))

CallDisconnect ==
    /\ Holds("AttoDryLib")
    /\ \E e \in AttoExitCodes :
          Act("AttoDryLib.disconnect", NoArgs, AttoDryLib_disconnect(self, native, e))

CallIsInitialized ==
    /\ Holds("AttoDryLib")
    /\ \E e \in AttoExitCodes, i \in {0, 1} :
          Act("AttoDryLib.is_initialized", NoArgs, is_initialized(self, native, e, i))

CallAttoDryLibClose ==
    /\ Holds("AttoDryLib")
    /\ \E e \in AttoExitCodes :
          Act("AttoDryLib.close", [library |-> self.library, begun |-> self.begun],
              AttoDryLib_close(self, native, e))

DelAttoDryLib ==
    /\ Droppable("AttoDryLib")
    /\ \E e \in AttoExitCodes :
          Act("AttoDryLib.__del__", [library |-> self.library, begun |-> self.begun],
              AttoDryLib_del(self, native, e))

NewAtmcd64dLibObject ==
    /\ pc = "idle"
    /\ self = NoObject
    /\ \E win32 \in BOOLEAN, loads \in BOOLEAN :
          Act("Atmcd64dLib.__init__", NoArgs,
              Atmcd64dLib_init(FreshProcess("Atmcd64dLib"), win32, loads))

CallShutDown ==
    /\ Holds("Atmcd64dLib")
    /\ \E code \in AtmcdCodes :
          Act("Atmcd64dLib.shut_down", NoArgs, shut_down(self, native, code))

CallCoolerOn ==
    /\ Holds("Atmcd64dLib")
    /\ \E code \in AtmcdCodes :
          Act("Atmcd64dLib.cooler_on", NoArgs, OnDll(self, native, cooler_on(code)))

CallObjectGetTemperature ==
    /\ Holds("Atmcd64dLib")
    /\ \E code \in AtmcdCodes, t \in Temperatures :
          Act("Atmcd64dLib.get_temperature", NoArgs,
              OnDll(self, native, get_temperature(code, t)))

CallObjectGetStatus ==
    /\ Holds("Atmcd64dLib")
    /\ \E code \in AtmcdCodes, status \in AtmcdCodes :
          Act("Atmcd64dLib.get_status", NoArgs,
              OnDll(self, native, get_status(code, status)))

DelAtmcd64dLib ==
    /\ Droppable("Atmcd64dLib")
    /\ \E code \in AtmcdCodes :
          Act("Atmcd64dLib.__del__", NoArgs, Atmcd64dLib_del(self, native, code))

NewWlmDataLibObject ==
    /\ pc = "idle"
    /\ self = NoObject
    /\ \E found \in BOOLEAN :
          Act("WlmDataLib.__init__", NoArgs,
              WlmDataLib_init(FreshProcess("WlmDataLib"), found))

CallWlmDataLibClose ==
    /\ Holds("WlmDataLib")
    /\ native.frees < MaxCloses
    /\ Act("WlmDataLib.close", NoArgs, WlmDataLib_close(self, native))

DelWlmDataLib ==
    /\ Droppable("WlmDataLib")
    /\ Act("WlmDataLib.__del__", NoArgs, WlmDataLib_del(self, native))

NextLife ==
    \/ NewAttoDryLibObject
    \/ CallBegin
    \/ CallEnd
    \/ CallDisconnect
    \/ CallIsInitialized
    \/ CallAttoDryLibClose
    \/ DelAttoDryLib
    \/ NewAtmcd64dLibObject
    \/ CallShutDown
    \/ CallCoolerOn
    \/ CallObjectGetTemperature
    \/ CallObjectGetStatus
    \/ DelAtmcd64dLib
    \/ NewWlmDataLibObject
    \/ CallWlmDataLibClose
    \/ DelWlmDataLib
    \/ NextCall

SpecLife == Init /\ [][NextLife]_vars

(***************************************************************************)
(* Properties of the life cycle                                            *)
(***************************************************************************)
\* a method other than close / shut_down was called on an object whose
\* library had been unloaded before (the methods never clear the handle
\* themselves)
CalledAfterClose ==
    /\ pc = "done"
    /\ \/ /\ op \in {"AttoDryLib.begin", "AttoDryLib.end", "AttoDryLib.disconnect",
                     "AttoDryLib.is_initialized"}
          /\ self.library = "None"
       \/ /\ op \in {"Atmcd64dLib.cooler_on", "Atmcd64dLib.get_temperature",
                     "Atmcd64dLib.get_status"}
          /\ self.dll = "None"

\* the structured error type of the library the object wraps
OwnErrorTypes ==
    IF self.lib = "AttoDryLib"
    THEN {"AttoDryLibError", "AttoDryLibNonZeroExitCodeError"}
    ELSE {"Atmcd64dLibError"}

\* C13: after AttoDryLib.close() or Atmcd64dLib.shut_down() has completed,
\* every later call of a wrapper method on the object fails with the
\* library's own error type (AttoDryLibError, resp. Atmcd64dLibError) and
\* issues no native call
C13_ClosedObjectRaisesOwnError ==
    CalledAfterClose =>
        /\ result.kind = "raise"
        /\ result.exc.type \in OwnErrorTypes
        /\ nativeLog = <<>>

\* the process of an AttoDryLib or Atmcd64dLib object
LibraryProcess == self.lib \in {"AttoDryLib", "Atmcd64dLib"}

\* close() / shut_down() calls that did not reach FreeLibrary
ClosedWithoutFree ==
    /\ pc = "done"
    /\ op \in {"AttoDryLib.close", "Atmcd64dLib.shut_down"}
    /\ \A i \in 1..Len(nativeLog) : nativeLog[i].fn # "FreeLibrary"

\* C14: over any sequence of close() / shut_down() calls and the final
\* __del__ on one AttoDryLib or Atmcd64dLib object, FreeLibrary is called at
\* most once, and never while the library is unmapped; a close that frees
\* nothing raises
C14_FreedAtMostOnce ==
    LibraryProcess =>
        /\ native.frees <= 1
        /\ native.mapped => native.frees = 0
        /\ ClosedWithoutFree => result.kind = "raise"

\* a second close() on an AttoDryLib object: it raises, nothing is freed again
C14_Witness ==
    /\ pc = "done"
    /\ op = "AttoDryLib.close"
    /\ args.library = "None"
    /\ native.frees = 1
    /\ nativeLog = <<>>
    /\ result.kind = "raise"

\* __del__ of a WlmDataLib object ran after the library had been closed
DeletedAfterClose ==
    /\ pc = "done"
    /\ op = "WlmDataLib.__del__"
    /\ native.frees > Len(nativeLog)

\* C15: after an explicit close() on a WlmDataLib object, __del__ does not
\* call close_dll again
C15_DelDoesNotCloseAgain ==
    DeletedAfterClose => nativeLog = <<>>

\* close() was called on an AttoDryLib object whose library is loaded
ClosedLoaded ==
    /\ pc = "done"
    /\ op = "AttoDryLib.close"
    /\ args.library = "dll"

\* C16: AttoDryLib.close() issues AttoDRY_Interface_end only if the session
\* is begun and before FreeLibrary; the library is freed and _library cleared
\* also when end fails, and the failure of end is raised to the caller
C16_CloseFreesAfterEnd ==
    ClosedLoaded =>
        /\ Len(nativeLog) = (IF args.begun THEN 2 ELSE 1)
        /\ nativeLog[Len(nativeLog)].fn = "FreeLibrary"
        /\ args.begun => nativeLog[1].fn = "AttoDRY_Interface_end"
        /\ self.library = "None"
        /\ ~native.mapped
        /\ native.frees = 1
        /\ IF args.begun /\ nativeLog[1].ret # 0
           THEN /\ result.kind = "raise"
                /\ result.exc.type = "AttoDryLibNonZeroExitCodeError"
                /\ result.exc.error_code = Some(nativeLog[1].ret)
                /\ result.exc.function_name = Some("end")
           ELSE result.kind = "return"

\* end failed with 56 inside close(): the library is freed, the error raised
C16_Witness ==
    /\ ClosedLoaded
    /\ args.begun
    /\ nativeLog[1].ret = 56
    /\ nativeLog[2].fn = "FreeLibrary"
    /\ self.library = "None"
    /\ result.exc.type = "AttoDryLibNonZeroExitCodeError"

\* shut_down() reached the native ShutDown, which returned a failure code
ShutDownFailed ==
    /\ pc = "done"
    /\ op = "Atmcd64dLib.shut_down"
    /\ nativeLog # <<>>
    /\ nativeLog[1].fn = "ShutDown"
    /\ nativeLog[1].ret # DRV_SUCCESS

\* C17: Atmcd64dLib.shut_down() frees the library and clears _dll also when
\* the native ShutDown returns a failure code
C17_ShutDownFreesOnFailure ==
    ShutDownFailed =>
        /\ self.dll = "None"
        /\ ~native.mapped
        /\ native.frees = 1

\* AttoDryLib(...) was called and the library could not be loaded
LoadFailed ==
    /\ pc = "done"
    /\ op = "AttoDryLib.__init__"
    /\ ~args.loads

\* C18: constructing AttoDryLib fails with FileNotFoundError, or an
\* AttoDryLibError raised from it, when the DLL name resolves to no file, and
\* with an AttoDryLibError raised from the loader's exception when loading
\* fails; no native begin call is made
C18_LoadFailureReported ==
    LoadFailed =>
        /\ result.kind = "raise"
        /\ nativeLog = <<>>
        /\ IF args.resolution = "none"
           THEN \/ result.exc.type = "FileNotFoundError"
                \/ /\ result.exc.type = "AttoDryLibError"
                   /\ result.exc.cause = "FileNotFoundError"
           ELSE /\ result.exc.type = "AttoDryLibError"
                /\ result.exc.cause = "OSError"

(***************************************************************************)
(* Properties of the enum conversions                                      *)
(***************************************************************************)
\* C19: an Atmcd64dLibError built with an integer that is no member of
\* Atmcd64dExitCodes keeps the integer as error_code, built with a member
\* value it holds the member; the construction raises for no integer
C19_ErrorCodeKept ==
    Done("Atmcd64dLibError") =>
        /\ result.kind = "return"
        /\ result.value[1].type = "Atmcd64dLibError"
        /\ result.value[1].error_code[1].value = args.error_code
        /\ result.value[1].error_code[1].member <=> (args.error_code \in Atmcd64dExitCodes)

\* built with 99: the error holds the integer 99 and no member
C19_Witness ==
    /\ Done("Atmcd64dLibError")
    /\ args.error_code = 99
    /\ result.kind = "return"
    /\ result.value[1].error_code = Some([member |-> FALSE, value |-> 99])

\* the native call succeeded and reported an integer that is no member of
\* the enum of the getter
ReportedNonMember ==
    \/ /\ Done("get_status")
       /\ nativeLog[1].ret = DRV_SUCCESS
       /\ nativeLog[1].out[1] \notin Atmcd64dExitCodes
    \/ /\ Done("fwr_get_working_mode")
       /\ nativeLog[1].ret = 0
       /\ nativeLog[1].out[1] \notin PicoquantSepia2WorkingMode

\* C20: Atmcd64dLib.get_status and PicoquantSepia2Lib.fwr_get_working_mode
\* return the raw integer when the native call succeeds and reports an
\* integer that is no member of the enum
C20_NonMemberReturnedRaw ==
    ReportedNonMember =>
        /\ result.kind = "return"
        /\ result.value[1].value = nativeLog[1].out[1]

(***************************************************************************)
(* AttoDryLib: the flag _begun and the native session                      *)
(***************************************************************************)
EndIssued == CallsTo("AttoDRY_Interface_end") # <<>>

\* C28: _begun of an AttoDryLib is true exactly when a native begin has
\* succeeded and no native end has succeeded since; end() issues the native
\* end only while _begun is true and returns without a native call otherwise,
\* so the native end is never issued (by end(), close() or __del__) without a
\* preceding successful begin that no successful end has matched
C28_BegunTracksSession ==
    /\ self.lib = "AttoDryLib" => (self.begun <=> native.session)
    /\ (pc = "done" /\ op \in {"AttoDryLib.end", "AttoDryLib.close", "AttoDryLib.__del__"}) =>
          /\ EndIssued => args.begun
          /\ EndIssued => (self.begun <=> nativeLog[1].ret # 0)
          /\ op = "AttoDryLib.end" =>
                IF args.begun /\ args.library = "dll"
                THEN /\ Len(nativeLog) = 1
                     /\ nativeLog[1].fn = "AttoDRY_Interface_end"
                ELSE /\ nativeLog = <<>>
                     /\ self.begun = args.begun
          /\ (op = "AttoDryLib.end" /\ ~args.begun) => result.kind = "return"
    /\ (pc = "done" /\ op \in {"AttoDryLib.begin", "AttoDryLib.__init__"}
           /\ CallsTo("AttoDRY_Interface_begin") # <<>>
           /\ nativeLog[1].ret = 0) => self.begun

\* an end() on a loaded library whose session is not begun: no native call
C28_Witness ==
    /\ Done("AttoDryLib.end")
    /\ ~args.begun
    /\ args.library = "dll"
    /\ nativeLog = <<>>
    /\ native.frees = 0

(***************************************************************************)
(* Attocube: the instrument AttoDry2100 (Attocube/AttoDry2100.py)          *)
(*                                                                         *)
(* The instrument holds its AttoDryLib in _library: "unset" before the     *)
(* assignment, "obj" while it refers to the wrapper (whose attributes are  *)
(* in wrapper), "None" after close().  warned counts warnings.warn calls,  *)
(* base_closed the calls of qcodes' Instrument.close().                    *)
(***************************************************************************)
\* connect(com_port)
connect(s, n, exit_code) ==
    LET call == NativeCall("AttoDRY_Interface_Connect", <<>>, 0, 0, 0, exit_code, <<>>)
    IN  IF ~HasLibrary(s)
        THEN Step(check_function("connect", Raise(PyExc("AttributeError"), <<>>, <<>>)), s, n)
        ELSE Step(check_function("connect", After(<<call>>, check(exit_code))), s, n)

\* is_connected(); connected is what the native function writes to c_connected
is_connected(s, n, exit_code, connected) ==
    LET call == NativeCall("AttoDRY_Interface_isDeviceConnected", <<>>, 0, 0, 0,
                           exit_code, <<connected>>)
    IN  IF ~HasLibrary(s)
        THEN Step(check_function("is_connected",
                                 Raise(PyExc("AttributeError"), <<>>, <<>>)), s, n)
        ELSE Step(check_function("is_connected",
                                 After(<<call>>,
                                       Then(check(exit_code),
                                            Return(Some(connected # 0), <<>>, <<>>)))),
                  s, n)

\* the instrument after qcodes' Instrument.__init__(name)
NewAttoDry2100 ==
    [lib |-> "AttoDry2100", library |-> "unset", wrapper |-> NewAttoDryLib,
     warned |-> 0, base_closed |-> 0, held |-> FALSE, deleted |-> FALSE]

\* what the native functions answer to the calls of one close()
CloseAnswers ==
    [connected_code : AttoExitCodes, connected : {0, 1},
     disconnect : AttoExitCodes, end : AttoExitCodes]

\* variant: close() does not reset self._library
AttoDry2100_close_keeps_library(t, n, q) ==
    LET ic     == is_connected(t.wrapper, n, q.connected_code, q.connected)
        dc     == AttoDryLib_disconnect(t.wrapper, n, q.disconnect)
        asked  == ic.o.kind = "return" /\ ic.o.value = Some(TRUE)
        calls1 == IF asked THEN ic.o.calls \o dc.o.calls ELSE ic.o.calls
        warns  == ic.o.kind = "raise" \/ (asked /\ dc.o.kind = "raise")
        cl     == AttoDryLib_close(t.wrapper, n, q.end)
        t1     == [t EXCEPT !.warned = IF warns THEN @ + 1 ELSE @, !.wrapper = cl.self]
    IN  IF t.library = "None" THEN Step(Return(None, <<>>, <<>>), t, n)
        ELSE IF cl.o.kind = "raise"
        THEN Step(After(calls1, cl.o), t1, cl.native)
        ELSE Step(After(calls1, cl.o), [t1 EXCEPT !.base_closed = @ + 1], cl.native)

\* close(): an exception of is_connected() or disconnect() is passed to
\* warnings.warn; the wrapper's close() runs in a try whose finally clause
\* sets self._library = None; Instrument.close() is reached when the
\* wrapper's close() returned
AttoDry2100_close(t, n, q) ==
    LET ic     == is_connected(t.wrapper, n, q.connected_code, q.connected)
        dc     == AttoDryLib_disconnect(t.wrapper, n, q.disconnect)
        asked  == ic.o.kind = "return" /\ ic.o.value = Some(TRUE)
        calls1 == IF asked THEN ic.o.calls \o dc.o.calls ELSE ic.o.calls
        warns  == ic.o.kind = "raise" \/ (asked /\ dc.o.kind = "raise")
        cl     == AttoDryLib_close(t.wrapper, n, q.end)
        t1     == [t EXCEPT !.warned = IF warns THEN @ + 1 ELSE @, !.wrapper = cl.self,
                            !.library = "None"]
    IN  IF t.library = "None" THEN Step(Return(None, <<>>, <<>>), t, n)
        ELSE IF cl.o.kind = "raise"
        THEN Step(After(calls1, cl.o), t1, cl.native)
        ELSE Step(After(calls1, cl.o), [t1 EXCEPT !.base_closed = @ + 1], cl.native)

\* the native answers to the calls of the constructor and of the close() it
\* may make
InitAnswers ==
    [begin : AttoExitCodes, connect : AttoExitCodes, initialized_code : AttoExitCodes,
     initialized : {0, 1}, close : CloseAnswers]

\* AttoDry2100(name, com_port, path_to_dll): the wrapper is created outside
\* the try; what connect() or is_initialized() raise, or the AttoDryLibError
\* of a device that is not initialised, is caught, self.close() is called
\* and the bare raise re-raises it, unless self.close() raised itself
AttoDry2100_init(n, resolution, loads, q) ==
    LET t0   == NewAttoDry2100
        w    == AttoDryLib_init(n, resolution, loads, 1, q.begin)
        t1   == [t0 EXCEPT !.library = "obj", !.wrapper = w.self]
        co   == connect(w.self, w.native, q.connect)
        ii   == is_initialized(w.self, w.native, q.initialized_code, q.initialized)
        pre  == IF co.o.kind = "raise" THEN w.o.calls \o co.o.calls
                ELSE w.o.calls \o co.o.calls \o ii.o.calls
        fail == IF co.o.kind = "raise" THEN co.o.exc
                ELSE IF ii.o.kind = "raise" THEN ii.o.exc
                ELSE AttoDryLibError("AttoDRY device is not initialized!", "")
        ok   == co.o.kind = "return" /\ ii.o.kind = "return" /\ ii.o.value = Some(TRUE)
        cl   == AttoDry2100_close(t1, w.native, q.close)
    IN  IF w.o.kind = "raise" THEN Step(w.o, t0, w.native)
        ELSE IF ok THEN Step(Return(None, pre, <<>>), [t1 EXCEPT !.held = TRUE], w.native)
        ELSE IF cl.o.kind = "raise"
        THEN Step(After(pre, cl.o), cl.self, cl.native)
        ELSE Step(Raise(fail, pre \o cl.o.calls, <<>>), cl.self, cl.native)

(***************************************************************************)
(* Picoquant: the instrument PicoquantSepia2 (Picoquant/Sepia.py) and the  *)
(* library methods it calls (Picoquant/Sepia_Library.py)                   *)
(***************************************************************************)
\* the error decoder answers every failing status with a readable text
OkDecoder == [r1 |-> 0, t1 |-> <<79, 75>>, r2 |-> 0, t2 |-> <<79, 75>>]

\* status of a blocked or busy device, and of any other failure
BusyCode == -9004
FailCode == -1001

\* a decorated method that makes one native call, passes its status to
\* check_error and goes on with rest (fwr_get_version, com_get_module_type ...)
Checked(name, a, ret, out, rest) ==
    handle_errors(
        After(<<NativeCall(name, a, 0, 0, 0, ret, out)>>,
              Then(check_error(ret, Some(name), OkDecoder), rest)))

\* ctypes.create_string_buffer(product_model or 32): a filter is "None" or a
\* non-empty "str", and a str is neither an int nor bytes
CreateStringBufferFails(filter) == filter = "str"

\* the pair (c_product_model.value.decode(), c_serial_num.value.decode())
DecodePair(b_product, b_serial) ==
    IF StrDecodable(CValue(b_product)) /\ StrDecodable(CValue(b_serial))
    THEN Return(Some(<<StrDecode(CValue(b_product)), StrDecode(CValue(b_serial))>>),
                <<>>, <<>>)
    ELSE Raise(PyExc("UnicodeDecodeError"), <<>>, <<>>)

\* usb_open_device(device_id, product_model, serial_num); ret, b_product and
\* b_serial are the status and the bytes the native function leaves
usb_open_device(device_id, product_model, serial_num, ret, b_product, b_serial) ==
    IF CreateStringBufferFails(product_model) \/ CreateStringBufferFails(serial_num)
    THEN handle_errors(Raise(PyExc("TypeError"), <<>>, <<>>))
    ELSE Checked("SEPIA2_USB_OpenDevice", <<device_id>>, ret, <<b_product, b_serial>>,
                 DecodePair(b_product, b_serial))

\* the keyword parameters of usb_open_get_ser_num_and_close
OpenGetSerNumKeywords == {"device_id", "product_model", "serial_num"}

\* usb_open_get_ser_num_and_close(device_id, **keywords): the call is made
\* inside the try of the decorator, where a keyword the method does not
\* have raises TypeError
usb_open_get_ser_num_and_close(device_id, keywords, ret, b_product, b_serial) ==
    IF ~(keywords \subseteq OpenGetSerNumKeywords)
    THEN handle_errors(Raise(PyExc("TypeError"), <<>>, <<>>))
    ELSE Checked("SEPIA2_USB_OpenGetSerNumAndClose", <<device_id>>, ret,
                 <<b_product, b_serial>>, DecodePair(b_product, b_serial))

\* usb_close_device(device_id)
usb_close_device(device_id, ret) ==
    Checked("SEPIA2_USB_CloseDevice", <<device_id>>, ret, <<>>, Return(None, <<>>, <<>>))

\* fwr_get_module_map(device_id, perform_restart); module_count is what the
\* native function writes to c_module_count
fwr_get_module_map(device_id, perform_restart, ret, module_count) ==
    Checked("SEPIA2_FWR_GetModuleMap", <<device_id, BoolToInt(perform_restart)>>, ret,
            <<module_count>>, Return(Some(module_count), <<>>, <<>>))

\* fwr_free_module_map(device_id)
fwr_free_module_map(device_id, ret) ==
    Checked("SEPIA2_FWR_FreeModuleMap", <<device_id>>, ret, <<>>, Return(None, <<>>, <<>>))

\* scm_get_laser_soft_lock(device_id, slot_id); value is what the native
\* function writes to c_is_soft_locked
scm_get_laser_soft_lock(device_id, slot_id, ret, value) ==
    Checked("SEPIA2_SCM_GetLaserSoftLock", <<device_id, slot_id>>, ret, <<value>>,
            Return(Some(value # 0), <<>>, <<>>))

\* scm_set_laser_soft_lock(device_id, slot_id, soft_locked)
scm_set_laser_soft_lock(device_id, slot_id, soft_locked, ret) ==
    Checked("SEPIA2_SCM_SetLaserSoftLock",
            <<device_id, slot_id, CUByte(BoolToInt(soft_locked))>>, ret, <<>>,
            Return(None, <<>>, <<>>))

\* what the process holds for the Sepia library: the USB channels opened
\* exclusively, whether the library has a copy of the module map, how often
\* the map was freed, the soft lock register of the SCM module, and whether
\* a module was accessed while the library had no map
SepiaProcess(soft_locked) ==
    [lib |-> "Sepia2_Lib", opened |-> {}, map |-> FALSE, map_frees |-> 0,
     soft_locked |-> soft_locked, without_map |-> FALSE]

\* the native functions that access a module through the map
ModuleFunctions ==
    {"SEPIA2_FWR_GetModuleInfoByMapIdx", "SEPIA2_COM_GetModuleType",
     "SEPIA2_COM_GetSerialNumber", "SEPIA2_COM_GetSupplementaryInfos",
     "SEPIA2_SCM_GetLaserSoftLock", "SEPIA2_SCM_SetLaserSoftLock"}

\* the process after the native call c
Effect(n, c) ==
    LET m == [n EXCEPT !.without_map = @ \/ (c.fn \in ModuleFunctions /\ ~n.map)]
    IN  IF c.fn = "SEPIA2_FWR_FreeModuleMap"
        THEN [m EXCEPT !.map = IF c.ret = 0 THEN FALSE ELSE @, !.map_frees = @ + 1]
        ELSE IF c.ret # 0 THEN m
        ELSE IF c.fn = "SEPIA2_USB_OpenDevice"
        THEN [m EXCEPT !.opened = @ \cup {c.arg[1]}]
        ELSE IF c.fn = "SEPIA2_USB_CloseDevice"
        THEN [m EXCEPT !.opened = @ \ {c.arg[1]}]
        ELSE IF c.fn = "SEPIA2_FWR_GetModuleMap"
        THEN [m EXCEPT !.map = TRUE]
        ELSE IF c.fn = "SEPIA2_SCM_SetLaserSoftLock"
        THEN [m EXCEPT !.soft_locked = c.arg[3] # 0]
        ELSE m

\* the process after the native calls c[i], c[i + 1] ... of one method
RECURSIVE ReplayFrom(_, _, _)
ReplayFrom(n, c, i) ==
    IF i > Len(c) THEN n
    ELSE Once({ ReplayFrom(m, c, i + 1) : m \in {Effect(n, c[i])} })

\* the process after the native calls of one method, in order
Replay(n, calls) == Once({ ReplayFrom(m, c, 1) : m \in {n}, c \in {calls} })

\* range(8): the USB channels searched
UsbChannels == 8

\* the native functions _init_modules calls before it creates the module
SlotFunctions ==
    {"SEPIA2_FWR_GetModuleInfoByMapIdx", "SEPIA2_COM_GetModuleType",
     "SEPIA2_COM_DecodeModuleType", "SEPIA2_COM_DecodeModuleTypeAbbr"}

\* what the native functions answer during one construction: the channels
\* whose device can be opened, the native function that fails (if any), the
\* number of map entries, the type of the module found, the status of
\* SEPIA2_FWR_FreeModuleMap, and whether qcodes' Instrument provides an
\* attribute _modules; an answer that no path of the constructor asks for
\* has one value
SepiaAnswers ==
    { q \in [openable : SUBSET {0, 3, 7},
             fail : {"none", "SEPIA2_FWR_GetVersion", "SEPIA2_FWR_GetModuleMap"}
                    \cup ModuleFunctions \cup SlotFunctions,
             module_count : 0..2,
             abbr : {"SCM", "SLM", "SOM"},
             free : {0, FailCode},
             has_modules : BOOLEAN] :
        /\ q.module_count = 0 =>
              q.abbr = "SOM" /\ q.fail \notin (ModuleFunctions \cup SlotFunctions)
        /\ q.abbr # "SCM" =>
              q.fail \notin {"SEPIA2_SCM_GetLaserSoftLock", "SEPIA2_SCM_SetLaserSoftLock"}
        /\ q.fail \in {"SEPIA2_FWR_GetVersion", "SEPIA2_FWR_GetModuleMap"} =>
              q.module_count = 0 /\ q.free = 0
        /\ (q.fail # "none" \/ q.abbr = "SLM") => q.has_modules }

\* the status the native function fn returns
Ret(q, fn) == IF q.fail = fn THEN FailCode ELSE 0

\* product model and serial number the device on channel i reports, the
\* firmware version, the slot of the module
ProductText == <<83>>
SerialText(i) == <<48 + i>>
FwText == <<49, 46>>
SlotId == 0

\* variant: without the except clause, the first failure ends the search
SearchFromWithoutExcept(i, product_model, serial_num, q) ==
    IF i >= UsbChannels THEN Raise(PyExc("RuntimeError"), <<>>, <<>>)
    ELSE Once({ IF o.kind = "return"
                THEN Return(Some([id |-> i, pair |-> o.value[1]]), o.calls, o.trace)
                ELSE o :
                o \in {usb_open_device(i, product_model, serial_num,
                                       IF i \in q.openable THEN 0 ELSE BusyCode,
                                       ProductText, SerialText(i))} })

\* PicoquantSepia2.__init__, the loop "for i in range(8)" from channel i on:
\* the value is the channel found and the pair usb_open_device returned
RECURSIVE SearchFrom(_, _, _, _)
SearchFrom(i, product_model, serial_num, q) ==
    IF i >= UsbChannels THEN Raise(PyExc("RuntimeError"), <<>>, <<>>)
    ELSE Once({ IF o.kind = "return"
                THEN Return(Some([id |-> i, pair |-> o.value[1]]), o.calls, o.trace)
                ELSE IF o.exc.type = "PicoquantSepia2LibError"
                THEN After(o.calls, SearchFrom(i + 1, product_model, serial_num, q))
                ELSE o :
                o \in {usb_open_device(i, product_model, serial_num,
                                       IF i \in q.openable THEN 0 ELSE BusyCode,
                                       ProductText, SerialText(i))} })

\* PicoquantSepia2Module.__init__: com_get_serial_number, then
\* com_get_supplementary_infos (whose release date is taken to parse)
PicoquantSepia2Module_init(device_id, slot_id, q) ==
    Then(Checked("SEPIA2_COM_GetSerialNumber", <<device_id, slot_id, 1>>,
                 Ret(q, "SEPIA2_COM_GetSerialNumber"), <<>>, Return(None, <<>>, <<>>)),
         Checked("SEPIA2_COM_GetSupplementaryInfos", <<device_id, slot_id, 1>>,
                 Ret(q, "SEPIA2_COM_GetSupplementaryInfos"), <<>>,
                 Return(None, <<>>, <<>>)))

\* variant: the soft lock register is cleared without being read
PicoquantSepia2SCMModule_init_always_writes(device_id, slot_id, disable_soft_lock, soft_locked, q) ==
    Then(PicoquantSepia2Module_init(device_id, slot_id, q),
         scm_set_laser_soft_lock(device_id, slot_id, FALSE,
                                 Ret(q, "SEPIA2_SCM_SetLaserSoftLock")))

\* PicoquantSepia2SCMModule.__init__: "if disable_soft_lock and
\* self.soft_lock(): self.soft_lock(False)"; soft_locked is the content of
\* the register
PicoquantSepia2SCMModule_init(device_id, slot_id, disable_soft_lock, soft_locked, q) ==
    Then(PicoquantSepia2Module_init(device_id, slot_id, q),
         IF ~disable_soft_lock THEN Return(None, <<>>, <<>>)
         ELSE Once({ IF get.kind = "return" /\ get.value = Some(TRUE)
                     THEN After(get.calls,
                                scm_set_laser_soft_lock(
                                    device_id, slot_id, FALSE,
                                    Ret(q, "SEPIA2_SCM_SetLaserSoftLock")))
                     ELSE [get EXCEPT !.value = None] :
                     get \in {scm_get_laser_soft_lock(
                                  device_id, slot_id,
                                  Ret(q, "SEPIA2_SCM_GetLaserSoftLock"),
                                  BoolToInt(soft_locked))} }))

\* _init_modules, "for i in range(module_count)" from map index i on
RECURSIVE ModuleInfos(_, _, _)
ModuleInfos(device_id, i, q) ==
    IF i >= q.module_count THEN Return(None, <<>>, <<>>)
    ELSE Then(Checked("SEPIA2_FWR_GetModuleInfoByMapIdx", <<device_id, i>>,
                      Ret(q, "SEPIA2_FWR_GetModuleInfoByMapIdx"), <<SlotId>>,
                      Return(None, <<>>, <<>>)),
              ModuleInfos(device_id, i + 1, q))

\* try: body finally: fin
TryFinally(body, fin) ==
    Once({ IF f.kind = "raise" THEN After(b.calls, f)
           ELSE [b EXCEPT !.calls = @ \o f.calls] : b \in {body}, f \in {fin} })

\* _init_modules, the statements for the one slot: com_get_module_type, the
\* two decoders, and the module created; an SLM module fails on
\* self._lib._device_id after the calls of the base class
SlotModule(device_id, soft_locked, q) ==
    Then(Checked("SEPIA2_COM_GetModuleType", <<device_id, SlotId, 1>>,
                 Ret(q, "SEPIA2_COM_GetModuleType"), <<>>, Return(None, <<>>, <<>>)),
    Then(Checked("SEPIA2_COM_DecodeModuleType", <<>>,
                 Ret(q, "SEPIA2_COM_DecodeModuleType"), <<>>, Return(None, <<>>, <<>>)),
    Then(Checked("SEPIA2_COM_DecodeModuleTypeAbbr", <<>>,
                 Ret(q, "SEPIA2_COM_DecodeModuleTypeAbbr"), <<>>,
                 Return(None, <<>>, <<>>)),
    Then(IF q.abbr = "SCM"
         THEN PicoquantSepia2SCMModule_init(device_id, SlotId, TRUE, soft_locked, q)
         ELSE PicoquantSepia2Module_init(device_id, SlotId, q),
         IF q.abbr = "SLM" THEN Raise(PyExc("AttributeError"), <<>>, <<>>)
         ELSE Return(Some(<<q.abbr>>), <<>>, <<>>)))))

\* _init_modules(perform_restart): every map entry reports the slot SlotId,
\* so the set of slots has one element when the map is not empty; after the
\* finally clause self._modules is read before it is assigned
init_modules(device_id, perform_restart, soft_locked, q) ==
    Then(fwr_get_module_map(device_id, perform_restart,
                            Ret(q, "SEPIA2_FWR_GetModuleMap"), q.module_count),
         Then(TryFinally(Then(ModuleInfos(device_id, 0, q),
                              IF q.module_count = 0 THEN Return(Some(<<>>), <<>>, <<>>)
                              ELSE SlotModule(device_id, soft_locked, q)),
                         fwr_free_module_map(device_id, q.free)),
              IF q.has_modules
              THEN Return(Some(IF q.module_count = 0 THEN <<>> ELSE <<q.abbr>>),
                          <<>>, <<>>)
              ELSE Raise(PyExc("AttributeError"), <<>>, <<>>)))

\* the instrument after qcodes' Instrument.__init__(name) and the assignment
\* of _device_id; an attribute that was never assigned holds None here
NewPicoquantSepia2(device_id) ==
    [lib |-> "PicoquantSepia2", device_id |-> device_id, product_model |-> None,
     serial_num |-> None, fw_version |-> None, modules |-> None,
     held |-> FALSE, deleted |-> FALSE]

\* get_idn(): reading an attribute that was never assigned raises
get_idn(t) ==
    IF t.product_model = None \/ t.serial_num = None \/ t.fw_version = None
    THEN Raise(PyExc("AttributeError"), <<>>, <<>>)
    ELSE Return(Some([vendor |-> "PicoQuant", model |-> t.product_model[1],
                      serial |-> t.serial_num[1], firmware |-> t.fw_version[1]]),
                <<>>, <<>>)

\* PicoquantSepia2.__init__ from "Get firmware version" on: fwr_get_version,
\* _init_modules and connect_message, which calls get_idn; t is the
\* instrument so far, calls the native calls so far
Connected(n, t, calls, perform_restart, q) ==
    Once({ IF fw.kind = "raise" THEN Step(After(calls, fw), t, Replay(n, calls \o fw.calls))
           ELSE IF im.kind = "raise"
           THEN Step(After(calls \o fw.calls, im), [t EXCEPT !.fw_version = fw.value],
                     Replay(n, calls \o fw.calls \o im.calls))
           ELSE Once({ Step([idn EXCEPT !.value = None,
                                        !.calls = calls \o fw.calls \o im.calls],
                            [t EXCEPT !.fw_version = fw.value, !.modules = im.value,
                                      !.held = (idn.kind = "return")],
                            Replay(n, calls \o fw.calls \o im.calls)) :
                       idn \in {get_idn([t EXCEPT !.fw_version = fw.value])} }) :
           fw \in {Checked("SEPIA2_FWR_GetVersion", <<t.device_id>>,
                           Ret(q, "SEPIA2_FWR_GetVersion"), <<FwText>>,
                           DecodeBuffer(FwText))},
           im \in {init_modules(t.device_id, perform_restart, n.soft_locked, q)} })

\* PicoquantSepia2(name, device_id, product_model, serial_num, ...,
\* perform_restart); n is the process before, with the soft lock register;
\* the pair usb_open_device returns is assigned to (_serial_num,
\* _product_model)
PicoquantSepia2_init(n, device_id, product_model, serial_num, perform_restart, q) ==
    IF device_id >= 0
    THEN Connected(n, NewPicoquantSepia2(device_id), <<>>, perform_restart, q)
    ELSE Once({ IF found.kind = "raise"
                THEN Step(found, NewPicoquantSepia2(device_id), Replay(n, found.calls))
                ELSE Connected(n,
                               [NewPicoquantSepia2(device_id) EXCEPT
                                   !.device_id = found.value[1].id,
                                   !.serial_num = Some(found.value[1].pair[1]),
                                   !.product_model = Some(found.value[1].pair[2])],
                               found.calls, perform_restart, q) :
                found \in {SearchFrom(0, product_model, serial_num, q)} })

\* close(): usb_close_device(self._device_id), then Instrument.close()
PicoquantSepia2_close(t, n, ret) ==
    Once({ Step(o, t, Replay(n, o.calls)) : o \in {usb_close_device(t.device_id, ret)} })

\* the parameter soft_lock of the SCM module: get, or set to value
soft_lock(t, n, value, ret) ==
    Once({ Step(o, t, Replay(n, o.calls)) :
           o \in {IF value = None
                  THEN scm_get_laser_soft_lock(t.device_id, SlotId, ret,
                                               BoolToInt(n.soft_locked))
                  ELSE scm_set_laser_soft_lock(t.device_id, SlotId, value[1], ret)} })

\* PicoquantSepia2SCMModule(parent, name, slot_id, True, disable_soft_lock)
\* created by the caller on a constructed instrument
NewSCMModule(t, n, disable_soft_lock, q) ==
    Once({ Step(o, t, Replay(n, o.calls)) :
           o \in {PicoquantSepia2SCMModule_init(t.device_id, SlotId, disable_soft_lock,
                                                n.soft_locked, q)} })

\* list_usb_devices(), the loop from channel i on: status[i] is what the
\* native function returns for channel i
RECURSIVE ListFrom(_, _)
ListFrom(i, status) ==
    IF i >= UsbChannels THEN Return(Some(<<>>), <<>>, <<>>)
    ELSE Once({ IF o.kind = "raise" /\ o.exc.type # "PicoquantSepia2LibError" THEN o
                ELSE IF o.kind = "raise" \/ rest.kind = "raise" THEN After(o.calls, rest)
                ELSE Return(Some(<<[id |-> i, product |-> o.value[1][1],
                                    serial |-> o.value[1][2]]>> \o rest.value[1]),
                            o.calls \o rest.calls, <<>>) :
                o \in {usb_open_get_ser_num_and_close(
                           i, {"device_id", "ignore_blocked_busy"}, status[i],
                           ProductText, SerialText(i))},
                rest \in {ListFrom(i + 1, status)} })

list_usb_devices(status) == ListFrom(0, status)

(***************************************************************************)
(* Andor: Spectrum.get_raw (Andor/iDus.py) and the library methods it      *)
(* calls (Andor/atmcd64d/atmcd64d_library.py)                              *)
(***************************************************************************)
\* start_acquisition()
start_acquisition(code) ==
    After(<<NativeCall("StartAcquisition", <<>>, 0, 0, 0, code, <<>>)>>,
          error_check(code, Some("StartAcquisition"), Some(<<>>), {}))

\* wait_for_acquisition()
wait_for_acquisition(code) ==
    After(<<NativeCall("WaitForAcquisition", <<>>, 0, 0, 0, code, <<>>)>>,
          error_check(code, Some("WaitForAcquisition"), Some(<<>>), {}))

\* get_acquired_data(size); data is what the native function writes to the
\* array of size c_long
get_acquired_data(size, code, data) ==
    After(<<NativeCall("GetAcquiredData", <<size>>, size, 0, size, code, data)>>,
          Then(error_check(code, Some("GetAcquiredData"), Some(<<>>), {}),
               Return(Some(data), <<>>, <<>>)))

\* the keys of the val_mapping of the parameter acquisition_mode
AcquisitionModes ==
    {"single scan", "accumulate", "kinetics", "fast kinetics", "run until abort"}

\* the largest number of accumulations set
MaxAccumulations == 2

\* "for i in range(number_accumulations)" from i on; q.failing_wait is the
\* wait (counted from 1) that fails, 0 for none
RECURSIVE Waits(_, _, _)
Waits(i, number_accumulations, q) ==
    IF i >= number_accumulations THEN Return(None, <<>>, <<>>)
    ELSE Then(wait_for_acquisition(IF q.failing_wait = i + 1 THEN q.code ELSE DRV_SUCCESS),
              Waits(i + 1, number_accumulations, q))

\* Spectrum.get_raw(): acquisition_mode is the key the parameter holds,
\* number_accumulations the value of that parameter (None when never set,
\* and range(None) raises), x_pixels the attribute of the instrument
get_raw(acquisition_mode, number_accumulations, x_pixels, q) ==
    LET start == start_acquisition(IF q.failing = "start" THEN q.code ELSE DRV_SUCCESS)
        waits == IF acquisition_mode = "single scan" THEN Waits(0, 1, q)
                 ELSE IF acquisition_mode = "accumulate"
                 THEN IF number_accumulations = None
                      THEN Raise(PyExc("TypeError"), <<>>, <<>>)
                      ELSE Waits(0, number_accumulations[1], q)
                 ELSE Return(None, <<>>, <<>>)
        data  == get_acquired_data(x_pixels,
                                   IF q.failing = "data" THEN q.code ELSE DRV_SUCCESS,
                                   [i \in 1..x_pixels |-> q.pixel])
    IN  Then(start, Then(waits, data))


(***************************************************************************)
(* State machine of the instruments                                        *)
(***************************************************************************)
NewAttoDry2100Object ==
    /\ pc = "idle"
    /\ self = NoObject
    /\ \E r \in Resolutions, loads \in BOOLEAN, q \in InitAnswers :
          Act("AttoDry2100.__init__",
              [resolution |-> r, loads |-> r # "none" /\ loads, answers |-> q],
              AttoDry2100_init(FreshProcess("AttoDryLib"), r, loads, q))

CallAttoDry2100Close ==
    /\ Holds("AttoDry2100")
    /\ \E q \in CloseAnswers :
          Act("AttoDry2100.close",
              [library |-> self.library, begun |-> self.wrapper.begun,
               warned |-> self.warned, answers |-> q],
              AttoDry2100_close(self, native, q))

\* the filters product_model and serial_num passed to the constructor
Filters == { <<"None", "None">>, <<"str", "None">>, <<"None", "str">> }

NewPicoquantSepia2Object ==
    /\ pc = "idle"
    /\ self = NoObject
    /\ \E device_id \in {-1, 3}, f \in Filters, restart \in BOOLEAN,
          locked \in BOOLEAN, q \in SepiaAnswers :
          /\ (device_id >= 0 \/ "str" \in {f[1], f[2]}) => q.openable = {}
          /\ device_id >= 0 => f = <<"None", "None">>
          /\ Act("PicoquantSepia2.__init__",
                 [device_id |-> device_id, filters |-> f, soft_locked |-> locked,
                  openable |-> q.openable],
                 PicoquantSepia2_init(SepiaProcess(locked), device_id, f[1], f[2],
                                      restart, q))

CallGetIdn ==
    /\ Holds("PicoquantSepia2")
    /\ Act("PicoquantSepia2.get_idn", [opened |-> native.opened],
           Step(get_idn(self), self, native))

CallPicoquantSepia2Close ==
    /\ Holds("PicoquantSepia2")
    /\ \E ret \in {0, FailCode} :
          Act("PicoquantSepia2.close", [device_id |-> self.device_id],
              PicoquantSepia2_close(self, native, ret))

CallSoftLock ==
    /\ Holds("PicoquantSepia2")
    /\ self.modules = Some(<<"SCM">>)
    /\ \E value \in {None, Some(TRUE), Some(FALSE)}, ret \in {0, FailCode} :
          Act("PicoquantSepia2SCMModule.soft_lock", [value |-> value],
              soft_lock(self, native, value, ret))

NewSCMModuleObject ==
    /\ Holds("PicoquantSepia2")
    /\ \E disable \in BOOLEAN, q \in SepiaAnswers :
          /\ q.openable = {} /\ q.module_count = 1 /\ q.abbr = "SCM"
          /\ q.free = 0 /\ q.fail \notin SlotFunctions
          /\ Act("PicoquantSepia2SCMModule.__init__",
                 [disable_soft_lock |-> disable, soft_locked |-> native.soft_locked],
                 NewSCMModule(self, native, disable, q))

\* what SEPIA2_USB_OpenGetSerNumAndClose returns per channel: 0 for a free
\* instrument, BusyCode for a busy one, FailCode where there is none
ChannelStatus(present, busy) ==
    [i \in 0..UsbChannels |->
        IF i \in busy THEN BusyCode ELSE IF i \in present THEN 0 ELSE FailCode]

CallListUsbDevices ==
    /\ pc = "idle"
    /\ self = NoObject
    /\ \E present \in SUBSET {0, 3, 7} : \E busy \in SUBSET present :
          Finish("list_usb_devices", [present |-> present, busy |-> busy],
                 list_usb_devices(ChannelStatus(present, busy)))

\* what the native Andor functions answer during one get_raw: the step that
\* fails (if any), its status, and the value of the pixels
AcquisitionAnswers ==
    [failing : {"none", "start", "wait", "data"}, failing_wait : 0..MaxAccumulations,
     code : AtmcdCodes \ {DRV_SUCCESS}, pixel : {0, 7}]

CallGetRaw ==
    /\ pc = "idle"
    /\ self = NoObject
    /\ \E mode \in AcquisitionModes, x_pixels \in {1, 3}, q \in AcquisitionAnswers,
          number \in {None} \cup { Some(k) : k \in 1..MaxAccumulations } :
          /\ (q.failing = "wait") <=> (q.failing_wait > 0)
          /\ Finish("Spectrum.get_raw",
                    [acquisition_mode |-> mode, number_accumulations |-> number,
                     x_pixels |-> x_pixels, answers |-> q],
                    get_raw(mode, number, x_pixels, q))

NextInstr ==
    \/ NewAttoDry2100Object
    \/ CallAttoDry2100Close
    \/ NewPicoquantSepia2Object
    \/ CallGetIdn
    \/ CallPicoquantSepia2Close
    \/ CallSoftLock
    \/ NewSCMModuleObject
    \/ CallListUsbDevices
    \/ CallGetRaw
    \/ NextCall

SpecInstr == Init /\ [][NextInstr]_vars

(***************************************************************************)
(* Properties of AttoDry2100                                               *)
(***************************************************************************)
\* the names of the native functions called, in order
CalledNames == [i \in 1..Len(nativeLog) |-> nativeLog[i].fn]

\* the native calls of a close() that finds the wrapper: the connection is
\* asked for, Disconnect follows when it is reported, then the session is
\* ended if begun and the library freed
CloseSequence(q, begun) ==
    <<"AttoDRY_Interface_isDeviceConnected">>
    \o (IF q.connected_code = 0 /\ q.connected # 0
        THEN <<"AttoDRY_Interface_Disconnect">> ELSE <<>>)
    \o (IF begun THEN <<"AttoDRY_Interface_end">> ELSE <<>>)
    \o <<"FreeLibrary">>

\* C24: AttoDry2100.close() disconnects the device only if it reports to be
\* connected, then ends the session and unloads the library; a failure of
\* the disconnect step is warned about and does not prevent the unloading;
\* a close() after a close() returns at once, with no native call and no
\* exception
C24_CloseDisconnectsEndsUnloads ==
    Done("AttoDry2100.close") =>
        IF args.library = "None"
        THEN /\ result.kind = "return"
             /\ nativeLog = <<>>
             /\ self.library = "None"
             /\ self.warned = args.warned
        ELSE /\ CalledNames = CloseSequence(args.answers, args.begun)
             /\ self.library = "None"
             /\ self.wrapper.library = "None"
             /\ ~native.mapped
             /\ native.frees = 1
             /\ result.kind = "raise" =>
                   /\ result.exc.function_name = Some("end")
                   /\ args.answers.end # 0
             /\ self.warned - args.warned =
                   (IF \/ args.answers.connected_code # 0
                       \/ (args.answers.connected # 0 /\ args.answers.disconnect # 0)
                    THEN 1 ELSE 0)

\* a second close() of an instrument whose first close() warned about the
\* disconnect step and unloaded the library
C24_Witness ==
    /\ Done("AttoDry2100.close")
    /\ args.library = "None"
    /\ self.warned = 1
    /\ self.base_closed = 1
    /\ native.frees = 1
    /\ ~native.mapped

\* the construction failed after the wrapper was created
FailedAfterWrapper ==
    /\ Done("AttoDry2100.__init__")
    /\ args.loads
    /\ args.answers.begin = 0
    /\ \/ args.answers.connect # 0
       \/ args.answers.initialized_code # 0
       \/ args.answers.initialized = 0

\* C27: when connect() fails or the device is not initialised, the
\* constructor of AttoDry2100 closes the instrument (disconnect if connected,
\* session ended, library unloaded) and the caller receives the original
\* failure, not a failure of the clean-up
C27_OriginalFailurePropagates ==
    FailedAfterWrapper =>
        /\ result.kind = "raise"
        /\ self.library = "None"
        /\ ~native.mapped
        /\ native.frees = 1
        /\ "FreeLibrary" = CalledNames[Len(CalledNames)]
        /\ IF args.answers.connect # 0
           THEN result.exc.function_name = Some("connect")
           ELSE IF args.answers.initialized_code # 0
           THEN result.exc.function_name = Some("is_initialized")
           ELSE /\ result.exc.type = "AttoDryLibError"
                /\ result.exc.error_message = Some("AttoDRY device is not initialized!")

(***************************************************************************)
(* Properties of PicoquantSepia2                                           *)
(***************************************************************************)
\* the channels SEPIA2_USB_OpenDevice was called for, in order
OpenAttempts ==
    LET opens == CallsTo("SEPIA2_USB_OpenDevice")
    IN  [i \in 1..Len(opens) |-> opens[i].arg[1]]

\* the constructor searched for the device
Searched == Done("PicoquantSepia2.__init__") /\ args.device_id < 0

\* the channels 0 .. k
UpTo(k) == [i \in 1..(k + 1) |-> i - 1]

\* C21: constructed with device_id < 0, PicoquantSepia2 tries the USB
\* channels 0..7 in ascending order and selects the lowest channel whose
\* usb_open_device succeeds, with no attempt on a higher channel; a failed
\* attempt never ends the search, and RuntimeError is raised when all eight
\* attempts fail
C21_SearchSelectsLowestChannel ==
    Searched =>
        IF args.filters # <<"None", "None">>
        THEN /\ result.kind = "raise"
             /\ result.exc.type = "RuntimeError"
             /\ nativeLog = <<>>
        ELSE IF args.openable = {}
        THEN /\ result.kind = "raise"
             /\ result.exc.type = "RuntimeError"
             /\ OpenAttempts = UpTo(UsbChannels - 1)
             /\ native.opened = {}
        ELSE /\ \A c \in args.openable : self.device_id <= c
             /\ self.device_id \in args.openable
             /\ OpenAttempts = UpTo(self.device_id)
             /\ self.device_id \in native.opened \/ result.kind = "raise"
             /\ result.kind = "raise" => result.exc.type # "RuntimeError"

\* the search passed three failing channels, took channel 3 and left
\* channel 7 alone
C21_Witness ==
    /\ Searched
    /\ args.openable = {3, 7}
    /\ self.device_id = 3
    /\ OpenAttempts = <<0, 1, 2, 3>>
    /\ result.kind = "return"

\* C22: get_idn of an instrument connected by the search reports under
\* "model" the product model and under "serial" the serial number that
\* usb_open_device returned for the selected channel
C22_IdnReportsModelAndSerial ==
    (Done("PicoquantSepia2.get_idn") /\ result.kind = "return") =>
        /\ result.value[1].model = StrDecode(CValue(ProductText))
        /\ result.value[1].serial = StrDecode(CValue(SerialText(self.device_id)))

\* C23: list_usb_devices returns, ascending by id, one entry (id, product
\* model, serial number) for every id in 0..7 with an instrument connected,
\* busy or blocked ones included, and no entry for another id
C23_ListsEveryConnectedDevice ==
    Done("list_usb_devices") =>
        /\ result.kind = "return"
        /\ LET devices == result.value[1]
           IN  /\ { devices[i].id : i \in 1..Len(devices) } = args.present
               /\ \A i \in 1..Len(devices) :
                     /\ devices[i].product = StrDecode(CValue(ProductText))
                     /\ devices[i].serial = StrDecode(CValue(SerialText(devices[i].id)))
                     /\ \A j \in 1..Len(devices) : i < j => devices[i].id < devices[j].id

\* the calls of SEPIA2_SCM_SetLaserSoftLock and of SEPIA2_SCM_GetLaserSoftLock
SoftLockWrites == CallsTo("SEPIA2_SCM_SetLaserSoftLock")
SoftLockReads == CallsTo("SEPIA2_SCM_GetLaserSoftLock")

\* C25: a PicoquantSepia2SCMModule constructed with disable_soft_lock=True
\* leaves the soft lock register false, writing it (to False) only when it
\* was read as true; with disable_soft_lock=False the register is not
\* written and keeps its content
C25_SoftLockDisabledOnRequest ==
    Done("PicoquantSepia2SCMModule.__init__") =>
        /\ \A i \in 1..Len(SoftLockWrites) : SoftLockWrites[i].arg[3] = 0
        /\ IF args.disable_soft_lock
           THEN /\ SoftLockWrites # <<>> =>
                      /\ Len(SoftLockReads) = 1
                      /\ SoftLockReads[1].ret = 0
                      /\ SoftLockReads[1].out # <<0>>
                      /\ args.soft_locked
                /\ result.kind = "return" =>
                      /\ ~native.soft_locked
                      /\ (SoftLockWrites # <<>>) <=> args.soft_locked
           ELSE /\ SoftLockWrites = <<>>
                /\ native.soft_locked = args.soft_locked

\* the register was set, the constructor read it and cleared it
C25_Witness ==
    /\ Done("PicoquantSepia2SCMModule.__init__")
    /\ args.disable_soft_lock
    /\ args.soft_locked
    /\ result.kind = "return"
    /\ Len(SoftLockWrites) = 1
    /\ ~native.soft_locked

\* C26: every module-related native call of the instrument and its modules
\* is made while the library holds the module map, after a successful
\* fwr_get_module_map and before fwr_free_module_map; and once
\* fwr_get_module_map has succeeded in _init_modules, fwr_free_module_map is
\* called exactly once on every path out of it
C26_ModuleCallsWithinMap ==
    /\ native.lib = "Sepia2_Lib" => ~native.without_map
    /\ (/\ Done("PicoquantSepia2.__init__")
        /\ \E i \in 1..Len(nativeLog) :
              nativeLog[i].fn = "SEPIA2_FWR_GetModuleMap" /\ nativeLog[i].ret = 0)
       => Len(CallsTo("SEPIA2_FWR_FreeModuleMap")) = 1

\* the native calls of the constructor that are made for a device id, other
\* than opening it
UsesDevice(c) ==
    c.fn \in ({"SEPIA2_FWR_GetVersion", "SEPIA2_FWR_GetModuleMap",
               "SEPIA2_FWR_FreeModuleMap"} \cup ModuleFunctions)

\* C29: on every construction path of PicoquantSepia2 usb_open_device has
\* succeeded on the selected id before any other library call with that id;
\* close() calls usb_close_device on exactly that id; and when the
\* construction fails after the device was opened, the device is closed
\* again before the exception reaches the caller
C29_OpenedBeforeUseClosedOnFailure ==
    /\ Done("PicoquantSepia2.__init__") =>
          /\ \A i \in 1..Len(nativeLog) :
                UsesDevice(nativeLog[i]) =>
                   \E j \in 1..(i - 1) :
                      /\ nativeLog[j].fn = "SEPIA2_USB_OpenDevice"
                      /\ nativeLog[j].ret = 0
                      /\ nativeLog[j].arg[1] = nativeLog[i].arg[1]
          /\ result.kind = "raise" => native.opened = {}
    /\ Done("PicoquantSepia2.close") =>
          /\ nativeLog[1].fn = "SEPIA2_USB_CloseDevice"
          /\ nativeLog[1].arg = <<args.device_id>>

(***************************************************************************)
(* Properties of Spectrum.get_raw                                          *)
(***************************************************************************)
\* the waits the claim states for the mode
StatedWaits ==
    IF args.acquisition_mode = "single scan" THEN 1
    ELSE IF args.acquisition_mode = "accumulate" /\ args.number_accumulations # None
    THEN args.number_accumulations[1]
    ELSE 0

\* C30: Spectrum.get_raw issues start_acquisition once, then
\* wait_for_acquisition once in single-scan mode and number_accumulations
\* times in accumulate mode, then get_acquired_data once for x_pixels values;
\* in every acquisition mode the data is read only after the acquisition has
\* been waited for; a step that fails ends the sequence, no data is read
C30_WaitsBeforeRead ==
    Done("Spectrum.get_raw") =>
        /\ CalledNames[1] = "StartAcquisition"
        /\ Len(CallsTo("StartAcquisition")) = 1
        /\ \A i \in 1..Len(nativeLog) :
              (nativeLog[i].ret # DRV_SUCCESS \/ nativeLog[i].fn = "GetAcquiredData")
                 => i = Len(nativeLog)
        /\ CallsTo("GetAcquiredData") # <<>> =>
              /\ Len(CallsTo("WaitForAcquisition")) >= 1
              /\ Len(CallsTo("WaitForAcquisition")) = StatedWaits
              /\ nativeLog[Len(nativeLog)].size = args.x_pixels
        /\ result.kind = "return" =>
              /\ CallsTo("GetAcquiredData") # <<>>
              /\ Len(result.value[1]) = args.x_pixels
        /\ result.kind = "raise" =>
              \/ CallsTo("GetAcquiredData") = <<>>
              \/ nativeLog[Len(nativeLog)].ret # DRV_SUCCESS

====
